---------------------------- MODULE Spec2Model ----------------------------
(***************************************************************************)
(* Cherry OpenFlow controller: the REST switch registry of the Controller, *)
(* the node lists of Port, and the Router processor's packet-in handler.   *)
(***************************************************************************)
EXTENDS Integers, Sequences, FiniteSets, TLC

(***************************************************************************)
(* Bounds of the model.                                                    *)
(***************************************************************************)
\* datapath ids 1..MaxDPID are used by REST bodies
MaxDPID == 2
\* devices 1..MaxDevices may connect
MaxDevices == 2
\* the switch table's AUTO_INCREMENT id is handed out up to MaxID
MaxID == 2
\* length of the :id path parameter of DELETE, in characters
MaxIdLen == 2
\* length to which a port's node list may grow
MaxNodes == 3
\* tasks (goroutines) calling into one Device and its Ports
NumTasks == 2
\* Port objects one Device creates
MaxPortObjects == 2
\* Nodes learned on one Port object
MaxLearned == 1
\* rows of the ip table, and the AUTO_INCREMENT ids handed out for host and vip
NumIPs == 2
MaxHostID == 2
MaxVipID == 2
\* connections the Controller accepts
MaxSessions == 3
\* REST clients posting at the same time
NumClients == 2
\* node lists that callers of Port.Nodes hold on to
MaxSnapshots == 1
\* nodes of the port whose slice is followed
MaxListLen == 4

(***************************************************************************)
(* REST status codes (const block of the controller).                      *)
(***************************************************************************)
okay == 0
queryFailed == 1
decodeFailed == 2
invalidParam == 3
duplicatedDPID == 4
invalidSwitchID == 5
unknownSwitchID == 6
internalServerErr == 7

\* limits of Switch.validate and the width of the uint16 fields of Switch
MaxNumPorts == 512
MaxPortNumber == 65535
Uint16Range == 65536

VARIABLES
    switches,    \* the database's switch table: rows [id, dpid, n_ports, first_port]
    nextID,      \* the table's AUTO_INCREMENT counter
    devices,     \* DPIDs of the devices present in the topology
    okayed,      \* history: DPIDs whose POST returned okay, no DELETE of that switch since
    rest,        \* the last REST request: its input, its status, the calls it made
    nodes,       \* Port.nodes of every port: the MACs of its Nodes, in list order
    portOp,      \* the last call on a port: method, port, MAC, the list before
    pkt,         \* the packet-in the Router is handling: its input and what it did
    fw,          \* the last event the Firewall handled: its arguments and what it did
    task,        \* per task: the Device or Port method it is in and where
    held,        \* per task: the mutexes it holds
    factory,     \* Device.factory
    ports,       \* Device.ports: port number -> Port object (0: no entry)
    value,       \* Port.value of every Port object
    nextObj,     \* the next Port object NewPort allocates
    written,     \* the messages handed to session.Write
    portNodes,   \* Port.nodes of every Port object: the MACs learned on it
    ipUsed,      \* table ip: the used column of every row
    hostRows,    \* table host: rows [id, ip_id]
    vipRows,     \* table vip: rows [id, ip_id, active_host_id, standby_host_id]
    nextHostID,  \* AUTO_INCREMENT counter of host
    nextVipID,   \* AUTO_INCREMENT counter of vip
    listener,    \* Controller.listener
    topoListener,\* the listener the topology holds
    setter,      \* the SetEventListener call in progress, if any
    sessions,    \* the sessionConfig of every Session started, in order
    post,        \* per REST client: its POST /api/v1/switch in progress
    arrays,      \* the backing arrays of the node slices of one Port
    header,      \* Port.nodes of that Port: backing array, len and cap
    returned     \* the slices Port.Nodes returned, with what they held then

restVars == <<switches, nextID, devices, okayed, rest>>
portVars == <<nodes, portOp>>
routerVars == <<pkt>>
firewallVars == <<fw>>
deviceVars == <<task, held, factory, ports, value, nextObj, written, portNodes>>
schemaVars == <<ipUsed, hostRows, vipRows, nextHostID, nextVipID>>
controllerVars == <<listener, topoListener, setter, sessions>>
postVars == <<post>>
sliceVars == <<arrays, header, returned>>
vars ==
    <<restVars, portVars, routerVars, firewallVars, deviceVars, schemaVars,
      controllerVars, postVars, sliceVars>>
\* what a step of one component leaves alone
notRest ==
    <<portVars, routerVars, firewallVars, deviceVars,
      schemaVars, controllerVars, postVars, sliceVars>>
notPort ==
    <<restVars, routerVars, firewallVars, deviceVars,
      schemaVars, controllerVars, postVars, sliceVars>>
notRouter ==
    <<restVars, portVars, firewallVars, deviceVars,
      schemaVars, controllerVars, postVars, sliceVars>>
notFirewall ==
    <<restVars, portVars, routerVars, deviceVars,
      schemaVars, controllerVars, postVars, sliceVars>>
notDevice ==
    <<restVars, portVars, routerVars, firewallVars,
      schemaVars, controllerVars, postVars, sliceVars>>
notSchema ==
    <<restVars, portVars, routerVars, firewallVars,
      deviceVars, controllerVars, postVars, sliceVars>>
notController ==
    <<restVars, portVars, routerVars, firewallVars,
      deviceVars, schemaVars, postVars, sliceVars>>
notPost ==
    <<restVars, portVars, routerVars, firewallVars,
      deviceVars, schemaVars, controllerVars, sliceVars>>
notSlice ==
    <<restVars, portVars, routerVars, firewallVars,
      deviceVars, schemaVars, controllerVars, postVars>>

\* what the insert of a concurrent POST leaves alone: all but post and the
\* switch table
restOfPost ==
    <<devices, okayed, rest, portVars, routerVars, firewallVars, deviceVars,
      schemaVars, controllerVars, sliceVars>>

DPIDs == 1..MaxDPID

(***************************************************************************)
(* Helpers on sequences.                                                   *)
(***************************************************************************)
Range(s) == {s[i] : i \in 1..Len(s)}

\* all orders in which a range over the finite set S may visit its elements
Orders(S) == {s \in [1..Cardinality(S) -> S] : Range(s) = S}

SeqsUpTo(S, n) == UNION {[1..k -> S] : k \in 0..n}

(***************************************************************************)
(* POST /api/v1/switch                                                     *)
(***************************************************************************)
\* JSON bodies: wellFormed = FALSE stands for a body that is not JSON at all
NumPortsInputs == {512, 513, 65536}
FirstPortInputs == {1, 65023, 65024}

Bodies ==
    [wellFormed : BOOLEAN, dpid : DPIDs, n_ports : NumPortsInputs,
     first_port : FirstPortInputs]

\* DecodeJsonPayload into Switch: a number that does not fit uint16 is an error
DecodeFails(body) ==
    \/ ~body.wellFormed
    \/ body.n_ports >= Uint16Range
    \/ body.first_port >= Uint16Range

DecodeSwitch(body) ==
    [DPID |-> body.dpid, NumPorts |-> body.n_ports, FirstPort |-> body.first_port]

\* a plausible slip: the sum taken in uint16, where it wraps and never exceeds 0xFFFF
validateWrapping(sw) ==
    \/ sw.NumPorts > MaxNumPorts
    \/ (sw.FirstPort + sw.NumPorts) % Uint16Range > MaxPortNumber

\* Switch.validate: TRUE when it returns an error
validate(sw) ==
    \/ sw.NumPorts > MaxNumPorts
    \/ sw.FirstPort + sw.NumPorts > MaxPortNumber

Call(fn, arg, err) == [fn |-> fn, arg |-> arg, err |-> err]

\* database.Switch(dpid): is a row with this DPID registered
dbSwitch(table, dpid) == \E r \in table : r.dpid = dpid

\* database.AddSwitch(sw): one INSERT, the id taken from AUTO_INCREMENT
dbAddSwitch(table, id, sw) ==
    table \cup {[id |-> id, dpid |-> sw.DPID, n_ports |-> sw.NumPorts,
                 first_port |-> sw.FirstPort]}

\* what a handler did: the status it wrote, the calls it made in order, and
\* the switch table, the AUTO_INCREMENT counter and the topology it leaves
RestOutcome(status, calls, table, nid) ==
    [status |-> status, calls |-> calls, table |-> table, nextID |-> nid,
     topo |-> devices]

\* a plausible slip: the duplicate check left out
addSwitchNoDuplicateCheck(body, errSwitch, errAdd) ==
    IF DecodeFails(body)
    THEN RestOutcome(decodeFailed, <<>>, switches, nextID)
    ELSE LET sw == DecodeSwitch(body) IN
         IF validate(sw)
         THEN RestOutcome(invalidParam, <<>>, switches, nextID)
         ELSE IF errAdd
              THEN RestOutcome(queryFailed, <<Call("db.AddSwitch", sw.DPID, TRUE)>>,
                               switches, nextID)
              ELSE RestOutcome(okay, <<Call("db.AddSwitch", sw.DPID, FALSE)>>,
                               dbAddSwitch(switches, nextID, sw), nextID + 1)

\* Controller.addSwitch; errSwitch, errAdd: the database call returns an error
addSwitch(body, errSwitch, errAdd) ==
    IF DecodeFails(body)
    THEN RestOutcome(decodeFailed, <<>>, switches, nextID)
    ELSE LET sw == DecodeSwitch(body) IN
         IF validate(sw)
         THEN RestOutcome(invalidParam, <<>>, switches, nextID)
         ELSE IF errSwitch
              THEN RestOutcome(queryFailed, <<Call("db.Switch", sw.DPID, TRUE)>>,
                               switches, nextID)
              ELSE IF dbSwitch(switches, sw.DPID)
                   THEN RestOutcome(duplicatedDPID,
                                    <<Call("db.Switch", sw.DPID, FALSE)>>,
                                    switches, nextID)
                   ELSE IF errAdd
                        THEN RestOutcome(queryFailed,
                                         <<Call("db.Switch", sw.DPID, FALSE),
                                           Call("db.AddSwitch", sw.DPID, TRUE)>>,
                                         switches, nextID)
                        ELSE RestOutcome(okay,
                                         <<Call("db.Switch", sw.DPID, FALSE),
                                           Call("db.AddSwitch", sw.DPID, FALSE)>>,
                                         dbAddSwitch(switches, nextID, sw),
                                         nextID + 1)


(***************************************************************************)
(* DELETE /api/v1/switch/:id                                               *)
(***************************************************************************)
\* the :id path parameter, character by character
IdChars == {"1", "2", "x"}
IdParams == SeqsUpTo(IdChars, MaxIdLen)

IsDigit(c) == c \in {"0", "1", "2", "3", "4", "5", "6", "7", "8", "9"}

DigitValue(c) ==
    CASE c = "0" -> 0 [] c = "1" -> 1 [] c = "2" -> 2 [] c = "3" -> 3
      [] c = "4" -> 4 [] c = "5" -> 5 [] c = "6" -> 6 [] c = "7" -> 7
      [] c = "8" -> 8 [] c = "9" -> 9

\* strconv.ParseUint(s, 10, 64): an error for the empty string and for any
\* character that is not a decimal digit (a sign included); the 64-bit range
\* error needs 20 characters and is out of reach of MaxIdLen
ParseUintFails(s) == Len(s) = 0 \/ \E i \in 1..Len(s) : ~IsDigit(s[i])

RECURSIVE ParseUintValue(_)
ParseUintValue(s) ==
    IF Len(s) = 0 THEN 0
    ELSE 10 * ParseUintValue(SubSeq(s, 1, Len(s) - 1)) + DigitValue(s[Len(s)])

\* database.RemoveSwitch(id): ok when a row with this id existed
dbHasID(table, id) == \E r \in table : r.id = id
dbRemoveSwitch(table, id) == {r \in table : r.id # id}

\* Device.RemoveAllFlows on each device of order; it fails on those in failed
ClearCalls(order, failed) ==
    [i \in 1..Len(order) |-> Call("RemoveAllFlows", order[i], order[i] \in failed)]

\* the devices addressed when the loop gives up at the first failure
UpToFirstFailure(order, failed) ==
    IF \E i \in 1..Len(order) : order[i] \in failed
    THEN SubSeq(order, 1,
                CHOOSE i \in 1..Len(order) :
                    /\ order[i] \in failed
                    /\ \A j \in 1..(i - 1) : order[j] \notin failed)
    ELSE order

\* a plausible slip: return instead of continue when RemoveAllFlows fails
removeSwitchStopsAtFailure(param, errRemove, order, failed) ==
    IF ParseUintFails(param)
    THEN RestOutcome(invalidSwitchID, <<>>, switches, nextID)
    ELSE LET id == ParseUintValue(param)
             upto == UpToFirstFailure(order, failed) IN
         IF errRemove
         THEN RestOutcome(queryFailed, <<Call("db.RemoveSwitch", id, TRUE)>>,
                          switches, nextID)
         ELSE IF ~dbHasID(switches, id)
              THEN RestOutcome(unknownSwitchID,
                               <<Call("db.RemoveSwitch", id, FALSE)>>,
                               switches, nextID)
              ELSE RestOutcome(IF upto = order /\ Range(order) \cap failed = {}
                               THEN okay ELSE internalServerErr,
                               <<Call("db.RemoveSwitch", id, FALSE)>>
                                   \o ClearCalls(upto, failed),
                               dbRemoveSwitch(switches, id), nextID)

\* a plausible slip: the flows are cleared before the database is asked
removeSwitchClearsFirst(param, errRemove, order, failed) ==
    IF ParseUintFails(param)
    THEN RestOutcome(invalidSwitchID, <<>>, switches, nextID)
    ELSE LET id == ParseUintValue(param) IN
         IF errRemove
         THEN RestOutcome(queryFailed,
                          ClearCalls(order, failed)
                              \o <<Call("db.RemoveSwitch", id, TRUE)>>,
                          switches, nextID)
         ELSE IF ~dbHasID(switches, id)
              THEN RestOutcome(unknownSwitchID,
                               ClearCalls(order, failed)
                                   \o <<Call("db.RemoveSwitch", id, FALSE)>>,
                               switches, nextID)
              ELSE RestOutcome(okay,
                               ClearCalls(order, failed)
                                   \o <<Call("db.RemoveSwitch", id, FALSE)>>,
                               dbRemoveSwitch(switches, id), nextID)

\* a plausible slip: no return after writeStatus(unknownSwitchID)
removeSwitchNoReturnOnUnknown(param, errRemove, order, failed) ==
    IF ParseUintFails(param)
    THEN RestOutcome(invalidSwitchID, <<>>, switches, nextID)
    ELSE LET id == ParseUintValue(param) IN
         IF errRemove
         THEN RestOutcome(queryFailed, <<Call("db.RemoveSwitch", id, TRUE)>>,
                          switches, nextID)
         ELSE RestOutcome(IF dbHasID(switches, id) THEN okay ELSE unknownSwitchID,
                          <<Call("db.RemoveSwitch", id, FALSE)>>
                              \o ClearCalls(order, failed),
                          dbRemoveSwitch(switches, id), nextID)

\* Controller.removeSwitch; order: the order in which the range over
\* topo.Devices() visits the devices; failed: those whose RemoveAllFlows fails
removeSwitch(param, errRemove, order, failed) ==
    IF ParseUintFails(param)
    THEN RestOutcome(invalidSwitchID, <<>>, switches, nextID)
    ELSE LET id == ParseUintValue(param) IN
         IF errRemove
         THEN RestOutcome(queryFailed, <<Call("db.RemoveSwitch", id, TRUE)>>,
                          switches, nextID)
         ELSE IF ~dbHasID(switches, id)
              THEN RestOutcome(unknownSwitchID,
                               <<Call("db.RemoveSwitch", id, FALSE)>>,
                               switches, nextID)
              ELSE RestOutcome(okay,
                               <<Call("db.RemoveSwitch", id, FALSE)>>
                                   \o ClearCalls(order, failed),
                               dbRemoveSwitch(switches, id), nextID)

\* Controller.listSwitch
listSwitch(errSwitches) ==
    RestOutcome(IF errSwitches THEN queryFailed ELSE okay,
                <<Call("db.Switches", 0, errSwitches)>>, switches, nextID)

(***************************************************************************)
(* The REST requests as steps of the controller.                           *)
(***************************************************************************)
NoBody == [wellFormed |-> FALSE, dpid |-> 1, n_ports |-> 0, first_port |-> 1]

RestRecord(op, body, param, o) ==
    [op |-> op, body |-> body, param |-> param, status |-> o.status,
     calls |-> o.calls,
     swBefore |-> switches, swAfter |-> o.table,
     devBefore |-> devices, devAfter |-> o.topo,
     okayedBefore |-> okayed]

Apply(op, body, param, o) ==
    /\ switches' = o.table
    /\ nextID' = o.nextID
    /\ devices' = o.topo
    /\ rest' = RestRecord(op, body, param, o)
    /\ UNCHANGED notRest

\* the DPID of the row a DELETE addresses, if its parameter names a row
Addressed(param) ==
    IF ParseUintFails(param) THEN {}
    ELSE {r.dpid : r \in {x \in switches : x.id = ParseUintValue(param)}}

NoRequest ==
    [op |-> "none", body |-> NoBody, param |-> <<>>, status |-> okay,
     calls |-> <<>>, swBefore |-> {}, swAfter |-> {},
     devBefore |-> {}, devAfter |-> {}, okayedBefore |-> {}]

\* the REST client is sequential: no request while a response is outstanding
Idle == rest = NoRequest

GetSwitch ==
    /\ Idle
    /\ \E errSwitches \in BOOLEAN :
          Apply("list", NoBody, <<>>, listSwitch(errSwitches))
    /\ UNCHANGED okayed

PostSwitch ==
    /\ Idle
    /\ \E body \in Bodies, fault \in {"none", "db.Switch", "db.AddSwitch"} :
        LET o == addSwitch(body, fault = "db.Switch", fault = "db.AddSwitch") IN
        /\ o.nextID <= MaxID + 1
        /\ Apply("add", body, <<>>, o)
        /\ okayed' = IF o.status = okay THEN okayed \cup {body.dpid} ELSE okayed

DeleteSwitch ==
    /\ Idle
    /\ \E param \in IdParams, errRemove \in BOOLEAN, order \in Orders(devices),
       failed \in SUBSET devices :
        /\ Apply("remove", NoBody, param,
                 removeSwitch(param, errRemove, order, failed))
        /\ okayed' = okayed \ Addressed(param)

\* writeStatus has written the response and the handler has returned
Respond ==
    /\ ~Idle
    /\ rest' = NoRequest
    /\ UNCHANGED <<switches, nextID, devices, okayed>>
    /\ UNCHANGED notRest

(***************************************************************************)
(* Sessions: a device enters the topology when its handshake yields a DPID *)
(* and leaves it when its session ends.                                    *)
(***************************************************************************)
DeviceUp ==
    /\ Idle
    /\ \E d \in (1..MaxDevices) \ devices :
        /\ devices' = devices \cup {d}
        /\ UNCHANGED <<switches, nextID, okayed, rest>>
        /\ UNCHANGED notRest

DeviceDown ==
    /\ Idle
    /\ \E d \in devices :
        /\ devices' = devices \ {d}
        /\ UNCHANGED <<switches, nextID, okayed, rest>>
        /\ UNCHANGED notRest

RestInit ==
    /\ switches = {}
    /\ nextID = 1
    /\ devices = {}
    /\ okayed = {}
    /\ rest = NoRequest

(***************************************************************************)
(* Port: the node list.                                                    *)
(***************************************************************************)
\* hardware addresses, byte by byte
MACs == {<<0, 10>>, <<0, 160>>}

\* the ports of the devices, as (device, port number)
PortIDs == {<<1, 1>>, <<1, 2>>, <<2, 1>>}

HexDigit(n) ==
    CASE n = 0 -> "0" [] n = 1 -> "1" [] n = 2 -> "2" [] n = 3 -> "3"
      [] n = 4 -> "4" [] n = 5 -> "5" [] n = 6 -> "6" [] n = 7 -> "7"
      [] n = 8 -> "8" [] n = 9 -> "9" [] n = 10 -> "a" [] n = 11 -> "b"
      [] n = 12 -> "c" [] n = 13 -> "d" [] n = 14 -> "e" [] n = 15 -> "f"

\* net.HardwareAddr.String: two hex digits per byte, colons between the bytes
RECURSIVE MACString(_)
MACString(mac) ==
    IF Len(mac) = 0 THEN <<>>
    ELSE LET b == mac[Len(mac)]
             last == <<HexDigit(b \div 16), HexDigit(b % 16)>> IN
         IF Len(mac) = 1 THEN last
         ELSE MACString(SubSeq(mac, 1, Len(mac) - 1)) \o <<":">> \o last

\* a plausible slip: the loop stops at the first Node it drops
WithoutFirstMAC(list, mac) ==
    IF \E i \in 1..Len(list) : MACString(list[i]) = MACString(mac)
    THEN LET i == CHOOSE i \in 1..Len(list) :
                      /\ MACString(list[i]) = MACString(mac)
                      /\ \A j \in 1..(i - 1) : MACString(list[j]) # MACString(mac)
         IN SubSeq(list, 1, i - 1) \o SubSeq(list, i + 1, Len(list))
    ELSE list

\* the loop of Port.RemoveNode: keep the nodes whose MAC prints differently
RECURSIVE WithoutMAC(_, _)
WithoutMAC(list, mac) ==
    IF list = <<>> THEN <<>>
    ELSE IF MACString(Head(list)) = MACString(mac)
         THEN WithoutMAC(Tail(list), mac)
         ELSE <<Head(list)>> \o WithoutMAC(Tail(list), mac)

\* Port.AddNode: a new Node is appended, whatever the list holds
AddNode ==
    \E p \in PortIDs, mac \in MACs :
        /\ Len(nodes[p]) < MaxNodes
        /\ nodes' = [nodes EXCEPT ![p] = Append(@, mac)]
        /\ portOp' = [op |-> "AddNode", port |-> p, mac |-> mac,
                      before |-> nodes]
        /\ UNCHANGED notPort

\* Port.RemoveNode
RemoveNode ==
    \E p \in PortIDs, mac \in MACs :
        /\ nodes' = [nodes EXCEPT ![p] = WithoutMAC(@, mac)]
        /\ portOp' = [op |-> "RemoveNode", port |-> p, mac |-> mac,
                      before |-> nodes]
        /\ UNCHANGED notPort

\* NewPort: the node list starts empty
PortInit ==
    /\ nodes = [p \in PortIDs |-> <<>>]
    /\ portOp = [op |-> "none", port |-> <<1, 1>>, mac |-> <<0, 10>>,
                 before |-> [p \in PortIDs |-> <<>>]]

(***************************************************************************)
(* Router: the packet-in handler.                                          *)
(***************************************************************************)
\* Router.mac, the virtual MAC address read by Router.Init
VirtualMAC == <<0, 254>>
HostA == <<0, 10>>
HostB == <<0, 160>>
Gateway1 == <<2, 1>>
Gateway2 == <<2, 2>>

EtherTypeIPv4 == 2048
ProtocolICMP == 1
ICMPEchoRequest == 8
ICMPEchoReply == 0
\* an EtherType (ARP) and an IP protocol (TCP) the Router does not handle
OtherEtherTypes == {2054}
OtherProtocols == {6}

RouterIP == <<10, 0, 0, 1>>
HostIP == <<10, 0, 0, 5>>
InsideIP == <<10, 0, 0, 6>>
OutsideIP == <<8, 8, 8, 8>>
SpoofedIP == <<172, 16, 0, 9>>

\* what the administrative database holds: router addresses and networks
RouterIPs == {RouterIP}
Networks == <<[IP |-> <<10, 0, 0, 0>>, Mask |-> <<255, 255, 255, 0>>]>>

\* a payload that does not decode
Garbage == [garbage |-> TRUE]

ICMPEchos ==
    [Type : {ICMPEchoRequest, ICMPEchoReply}, ID : {1, 2}, Sequence : {3},
     Payload : {<<>>, <<7>>}]

\* IPv4 packets: an ICMP one carries an echo message or bytes that do not
\* decode as one, any other protocol is opaque to the Router
IPv4s ==
    [SrcIP : {InsideIP, SpoofedIP}, DstIP : {RouterIP, HostIP, OutsideIP},
     Protocol : {ProtocolICMP}, Payload : ICMPEchos \cup {Garbage}]
    \cup
    [SrcIP : {InsideIP, SpoofedIP}, DstIP : {RouterIP, HostIP, OutsideIP},
     Protocol : OtherProtocols, Payload : {Garbage}]

\* Ethernet frames of PACKET_IN: an IPv4 frame may carry a truncated packet
Frames ==
    [SrcMAC : {HostA, Gateway1}, DstMAC : {VirtualMAC, HostB},
     Type : {EtherTypeIPv4}, Payload : IPv4s \cup {Garbage}]
    \cup
    [SrcMAC : {HostA, Gateway1}, DstMAC : {VirtualMAC, HostB},
     Type : OtherEtherTypes, Payload : {Garbage}]

\* the external calls of one invocation that may return an error
Faults ==
    {"none", "db.IsRouter", "db.GetNetworks(dst)", "db.GetNetworks(src)",
     "db.IsGateway", "db.FindMAC", "db.GetGateways", "NewMatch", "NewAction",
     "NewInstruction", "NewFlowMod", "SendMessage", "PacketOut", "Next"}

NoNode == <<>>

\* Device.FlowTableID of the two devices, as set by their handshakes
DeviceTable(dev) == dev - 1

RCall(fn, arg, ret) == [fn |-> fn, arg |-> arg, ret |-> ret]
Nil == <<"nil">>
Err(what) == <<"error", what>>

\* what one invocation did: the calls it made in order, what it returned and
\* the frame as the caller sees it afterwards (the handler holds a pointer)
Outcome(calls, ret, eth) == [calls |-> calls, ret |-> ret, eth |-> eth]

RECURSIVE ByteAnd(_, _)
ByteAnd(a, b) ==
    IF a = 0 \/ b = 0 THEN 0
    ELSE (a % 2) * (b % 2) + 2 * ByteAnd(a \div 2, b \div 2)

\* net.IPNet.Contains
Contains(n, ip) ==
    /\ Len(ip) = Len(n.IP)
    /\ \A i \in 1..Len(ip) : n.IP[i] = ByteAnd(ip[i], n.Mask[i])

\* BaseProcessor.OnPacketIn: the next processor of the chain gets the event
NextProcessor(in, eth) ==
    RCall("Next.OnPacketIn", [port |-> in.ingress, eth |-> eth],
          IF in.fault = "Next" THEN Err("next") ELSE Nil)

\* BaseProcessor.PacketOut
PacketOut(in, port, packet) ==
    RCall("PacketOut", [port |-> port, packet |-> packet],
          IF in.fault = "PacketOut" THEN Err("packet-out") ELSE Nil)

\* Router.isMyNetwork: the calls it makes and its two results
isMyNetwork(in, ip, which) ==
    LET failed == in.fault = which IN
    [calls |-> <<RCall(which, <<>>, IF failed THEN Err(which) ELSE Networks)>>,
     err |-> failed,
     mine |-> ~failed /\ \E i \in 1..Len(Networks) : Contains(Networks[i], ip)]

\* a plausible slip: the IP addresses of the reply are not swapped
sendICMPReplyKeepsAddresses(in) ==
    LET ipv4 == in.eth.Payload
        echo == ipv4.Payload IN
    IF echo = Garbage \/ echo.Type # ICMPEchoRequest
    THEN Outcome(<<>>, Nil, in.eth)
    ELSE LET reply == [Type |-> ICMPEchoReply, ID |-> echo.ID,
                       Sequence |-> echo.Sequence, Payload |-> echo.Payload]
             ip == [SrcIP |-> ipv4.SrcIP, DstIP |-> ipv4.DstIP,
                    Protocol |-> ProtocolICMP, Payload |-> reply]
             eth == [SrcMAC |-> in.eth.DstMAC, DstMAC |-> in.eth.SrcMAC,
                     Type |-> EtherTypeIPv4, Payload |-> ip]
             out == PacketOut(in, in.ingress, eth) IN
         Outcome(<<out>>, out.ret, in.eth)

\* Router.sendICMPReply
sendICMPReply(in) ==
    LET ipv4 == in.eth.Payload
        echo == ipv4.Payload IN
    IF echo = Garbage \/ echo.Type # ICMPEchoRequest
    THEN Outcome(<<>>, Nil, in.eth)
    ELSE LET reply == [Type |-> ICMPEchoReply, ID |-> echo.ID,
                       Sequence |-> echo.Sequence, Payload |-> echo.Payload]
             ip == [SrcIP |-> ipv4.DstIP, DstIP |-> ipv4.SrcIP,
                    Protocol |-> ProtocolICMP, Payload |-> reply]
             eth == [SrcMAC |-> in.eth.DstMAC, DstMAC |-> in.eth.SrcMAC,
                     Type |-> EtherTypeIPv4, Payload |-> ip]
             out == PacketOut(in, in.ingress, eth) IN
         Outcome(<<out>>, out.ret, in.eth)

\* installFlow: the flow-mod it builds
FlowMod(param) ==
    [command |-> "FlowAdd",
     table |-> DeviceTable(param.device),
     idleTimeout |-> 30,
     priority |-> 30,
     match |-> [inPort |-> param.inPort, etherType |-> param.etherType,
                srcMAC |-> param.srcMAC, dstMAC |-> param.dstMAC,
                dstIP |-> param.dstIP],
     actions |-> <<[setDstMAC |-> param.targetMAC], [output |-> param.outPort]>>]

\* installFlow: the calls it makes and whether it returns an error
installFlow(in, param) ==
    IF in.fault \in {"NewMatch", "NewAction", "NewInstruction", "NewFlowMod"}
    THEN [calls |-> <<>>, ret |-> Err(in.fault)]
    ELSE LET ret == IF in.fault = "SendMessage" THEN Err("send") ELSE Nil IN
         [calls |-> <<RCall("SendMessage",
                            [device |-> param.device, msg |-> FlowMod(param)],
                            ret)>>,
          ret |-> ret]

\* a plausible slip: the frame is sent out before the flow is installed
sendPacketOutFirst(in, calls, egress, mac) ==
    LET param == [device |-> in.ingress[1], etherType |-> in.eth.Type,
                  inPort |-> in.ingress[2], outPort |-> egress[2],
                  srcMAC |-> in.eth.SrcMAC, dstMAC |-> in.eth.DstMAC,
                  targetMAC |-> mac,
                  dstIP |-> [IP |-> in.eth.Payload.DstIP,
                             Mask |-> <<255, 255, 255, 255>>]]
        eth == [in.eth EXCEPT !.DstMAC = mac]
        out == PacketOut(in, egress, eth)
        flow == installFlow(in, param) IN
    IF out.ret # Nil
    THEN Outcome(calls \o <<out>>, out.ret, eth)
    ELSE Outcome(calls \o <<out>> \o flow.calls, flow.ret, eth)

\* a plausible slip: the result of installFlow is not looked at
sendPacketIgnoresFlowError(in, calls, egress, mac) ==
    LET param == [device |-> in.ingress[1], etherType |-> in.eth.Type,
                  inPort |-> in.ingress[2], outPort |-> egress[2],
                  srcMAC |-> in.eth.SrcMAC, dstMAC |-> in.eth.DstMAC,
                  targetMAC |-> mac,
                  dstIP |-> [IP |-> in.eth.Payload.DstIP,
                             Mask |-> <<255, 255, 255, 255>>]]
        eth == [in.eth EXCEPT !.DstMAC = mac]
        flow == installFlow(in, param)
        out == PacketOut(in, egress, eth) IN
    Outcome(calls \o flow.calls \o <<out>>, out.ret, eth)

\* Router.sendPacket
sendPacket(in, calls, egress, mac) ==
    LET param == [device |-> in.ingress[1], etherType |-> in.eth.Type,
                  inPort |-> in.ingress[2], outPort |-> egress[2],
                  srcMAC |-> in.eth.SrcMAC, dstMAC |-> in.eth.DstMAC,
                  targetMAC |-> mac,
                  dstIP |-> [IP |-> in.eth.Payload.DstIP,
                             Mask |-> <<255, 255, 255, 255>>]]
        eth == [in.eth EXCEPT !.DstMAC = mac]
        flow == installFlow(in, param) IN
    IF flow.ret # Nil
    THEN Outcome(calls \o flow.calls, flow.ret, eth)
    ELSE LET out == PacketOut(in, egress, eth) IN
         Outcome(calls \o flow.calls \o <<out>>, out.ret, eth)

\* Finder.Path between two devices: no hop, or a first hop leaving src
FinderPath(in, src, dst) ==
    IF in.hasPath THEN << << <<src, 2>>, <<dst, 2>> >> >> ELSE <<>>

\* a plausible slip: the egress is the far end of the first hop
routeUsesPeerPort(in, calls, mac) ==
    LET find == RCall("finder.Node", mac, in.node)
        dstNode == in.node IN
    IF dstNode = NoNode
    THEN LET eth == [in.eth EXCEPT !.DstMAC = mac]
             next == NextProcessor(in, eth) IN
         Outcome(calls \o <<find, next>>, next.ret, eth)
    ELSE IF in.ingress[1] = dstNode[1]
         THEN sendPacket(in, calls \o <<find>>, dstNode, mac)
         ELSE LET path == FinderPath(in, in.ingress[1], dstNode[1])
                  ask == RCall("finder.Path", <<in.ingress[1], dstNode[1]>>,
                               path) IN
              IF Len(path) = 0
              THEN Outcome(calls \o <<find, ask>>, Nil, in.eth)
              ELSE sendPacket(in, calls \o <<find, ask>>, path[1][2], mac)

\* a plausible slip: an unknown node's frame is handed on as it came
routeForwardsUnmodified(in, calls, mac) ==
    LET find == RCall("finder.Node", mac, in.node)
        dstNode == in.node IN
    IF dstNode = NoNode
    THEN LET next == NextProcessor(in, in.eth) IN
         Outcome(calls \o <<find, next>>, next.ret, in.eth)
    ELSE IF in.ingress[1] = dstNode[1]
         THEN sendPacket(in, calls \o <<find>>, dstNode, mac)
         ELSE LET path == FinderPath(in, in.ingress[1], dstNode[1])
                  ask == RCall("finder.Path", <<in.ingress[1], dstNode[1]>>,
                               path) IN
              IF Len(path) = 0
              THEN Outcome(calls \o <<find, ask>>, Nil, in.eth)
              ELSE sendPacket(in, calls \o <<find, ask>>, path[1][1], mac)

\* a plausible slip: with no path the packet is handed on like an unknown node
routePassesOnNoPath(in, calls, mac) ==
    LET find == RCall("finder.Node", mac, in.node)
        dstNode == in.node
        eth == [in.eth EXCEPT !.DstMAC = mac]
        next == NextProcessor(in, eth) IN
    IF dstNode = NoNode
    THEN Outcome(calls \o <<find, next>>, next.ret, eth)
    ELSE IF in.ingress[1] = dstNode[1]
         THEN sendPacket(in, calls \o <<find>>, dstNode, mac)
         ELSE LET path == FinderPath(in, in.ingress[1], dstNode[1])
                  ask == RCall("finder.Path", <<in.ingress[1], dstNode[1]>>,
                               path) IN
              IF Len(path) = 0
              THEN Outcome(calls \o <<find, ask, next>>, next.ret, eth)
              ELSE sendPacket(in, calls \o <<find, ask>>, path[1][1], mac)

\* Router.route
route(in, calls, mac) ==
    LET find == RCall("finder.Node", mac, in.node)
        dstNode == in.node IN
    IF dstNode = NoNode
    THEN LET eth == [in.eth EXCEPT !.DstMAC = mac]
             next == NextProcessor(in, eth) IN
         Outcome(calls \o <<find, next>>, next.ret, eth)
    ELSE IF in.ingress[1] = dstNode[1]
         THEN sendPacket(in, calls \o <<find>>, dstNode, mac)
         ELSE LET path == FinderPath(in, in.ingress[1], dstNode[1])
                  ask == RCall("finder.Path", <<in.ingress[1], dstNode[1]>>,
                               path) IN
              IF Len(path) = 0
              THEN Outcome(calls \o <<find, ask>>, Nil, in.eth)
              ELSE sendPacket(in, calls \o <<find, ask>>, path[1][1], mac)

\* Router.handleIncoming
handleIncoming(in, calls) ==
    LET dst == in.eth.Payload.DstIP
        failed == in.fault = "db.FindMAC"
        ok == ~failed /\ dst \in DOMAIN in.hosts
        ask == RCall("db.FindMAC", dst,
                     IF failed THEN Err("db.FindMAC")
                     ELSE IF ok THEN in.hosts[dst] ELSE NoNode) IN
    IF failed THEN Outcome(calls \o <<ask>>, Err("db.FindMAC"), in.eth)
    ELSE IF ~ok THEN Outcome(calls \o <<ask>>, Nil, in.eth)
    ELSE route(in, calls \o <<ask>>, in.hosts[dst])

\* panic("Invalid gateways")
Panic == <<"panic">>

\* pickGateway: the only entry, or the one rand.Intn chose
pickGateway(gateways, pick) ==
    IF Len(gateways) = 0 THEN Panic
    ELSE IF Len(gateways) = 1 THEN gateways[1]
    ELSE gateways[1 + (pick % Len(gateways))]

\* a plausible slip: the source address is not checked against the networks
handleOutgoingNoSpoofCheck(in, calls) ==
    LET gwFailed == in.fault = "db.IsGateway"
        isGw == RCall("db.IsGateway", in.eth.SrcMAC,
                      IF gwFailed THEN Err("db.IsGateway")
                      ELSE in.eth.SrcMAC \in Range(in.gateways))
        src == isMyNetwork(in, in.eth.Payload.SrcIP, "db.GetNetworks(src)")
        gwsFailed == in.fault = "db.GetGateways"
        gws == RCall("db.GetGateways", <<>>,
                     IF gwsFailed THEN Err("db.GetGateways") ELSE in.gateways)
        mac == pickGateway(in.gateways, in.pick) IN
    IF gwFailed THEN Outcome(calls \o <<isGw>>, Err("checking gateway MAC"), in.eth)
    ELSE IF isGw.ret THEN Outcome(calls \o <<isGw>>, Nil, in.eth)
    ELSE IF gwsFailed
         THEN Outcome(calls \o <<isGw>> \o src.calls \o <<gws>>,
                      Err("query gateway MAC addresses"), in.eth)
    ELSE IF Len(in.gateways) = 0
         THEN Outcome(calls \o <<isGw>> \o src.calls \o <<gws>>, Nil, in.eth)
    ELSE IF mac = Panic
         THEN Outcome(calls \o <<isGw>> \o src.calls \o <<gws>>, Panic, in.eth)
    ELSE route(in, calls \o <<isGw>> \o src.calls \o <<gws>>, mac)

\* a plausible slip: an empty gateway list is not checked for
handleOutgoingNoEmptyCheck(in, calls) ==
    LET gwFailed == in.fault = "db.IsGateway"
        isGw == RCall("db.IsGateway", in.eth.SrcMAC,
                      IF gwFailed THEN Err("db.IsGateway")
                      ELSE in.eth.SrcMAC \in Range(in.gateways))
        src == isMyNetwork(in, in.eth.Payload.SrcIP, "db.GetNetworks(src)")
        gwsFailed == in.fault = "db.GetGateways"
        gws == RCall("db.GetGateways", <<>>,
                     IF gwsFailed THEN Err("db.GetGateways") ELSE in.gateways)
        mac == pickGateway(in.gateways, in.pick) IN
    IF gwFailed THEN Outcome(calls \o <<isGw>>, Err("checking gateway MAC"), in.eth)
    ELSE IF isGw.ret THEN Outcome(calls \o <<isGw>>, Nil, in.eth)
    ELSE IF src.err
         THEN Outcome(calls \o <<isGw>> \o src.calls, Err("checking my networks"),
                      in.eth)
    ELSE IF ~src.mine THEN Outcome(calls \o <<isGw>> \o src.calls, Nil, in.eth)
    ELSE IF gwsFailed
         THEN Outcome(calls \o <<isGw>> \o src.calls \o <<gws>>,
                      Err("query gateway MAC addresses"), in.eth)
    ELSE IF mac = Panic
         THEN Outcome(calls \o <<isGw>> \o src.calls \o <<gws>>, Panic, in.eth)
    ELSE route(in, calls \o <<isGw>> \o src.calls \o <<gws>>, mac)

\* Router.handleOutgoing
handleOutgoing(in, calls) ==
    LET gwFailed == in.fault = "db.IsGateway"
        isGw == RCall("db.IsGateway", in.eth.SrcMAC,
                      IF gwFailed THEN Err("db.IsGateway")
                      ELSE in.eth.SrcMAC \in Range(in.gateways))
        src == isMyNetwork(in, in.eth.Payload.SrcIP, "db.GetNetworks(src)")
        gwsFailed == in.fault = "db.GetGateways"
        gws == RCall("db.GetGateways", <<>>,
                     IF gwsFailed THEN Err("db.GetGateways") ELSE in.gateways)
        mac == pickGateway(in.gateways, in.pick) IN
    IF gwFailed THEN Outcome(calls \o <<isGw>>, Err("checking gateway MAC"), in.eth)
    ELSE IF isGw.ret THEN Outcome(calls \o <<isGw>>, Nil, in.eth)
    ELSE IF src.err
         THEN Outcome(calls \o <<isGw>> \o src.calls, Err("checking my networks"),
                      in.eth)
    ELSE IF ~src.mine THEN Outcome(calls \o <<isGw>> \o src.calls, Nil, in.eth)
    ELSE IF gwsFailed
         THEN Outcome(calls \o <<isGw>> \o src.calls \o <<gws>>,
                      Err("query gateway MAC addresses"), in.eth)
    ELSE IF Len(in.gateways) = 0
         THEN Outcome(calls \o <<isGw>> \o src.calls \o <<gws>>, Nil, in.eth)
    ELSE IF mac = Panic
         THEN Outcome(calls \o <<isGw>> \o src.calls \o <<gws>>, Panic, in.eth)
    ELSE route(in, calls \o <<isGw>> \o src.calls \o <<gws>>, mac)

\* a plausible slip: the packet is classified by its source address
handleIPv4BySource(in) ==
    IF in.eth.Payload = Garbage
    THEN Outcome(<<>>, Err("IPv4.UnmarshalBinary"), in.eth)
    ELSE LET ipv4 == in.eth.Payload
             rFailed == in.fault = "db.IsRouter"
             isR == RCall("db.IsRouter", ipv4.DstIP,
                          IF rFailed THEN Err("db.IsRouter")
                          ELSE ipv4.DstIP \in RouterIPs)
             dst == isMyNetwork(in, ipv4.SrcIP, "db.GetNetworks(dst)") IN
         IF rFailed THEN Outcome(<<isR>>, Err("checking router IP"), in.eth)
         ELSE IF isR.ret
              THEN IF ipv4.Protocol = ProtocolICMP
                   THEN LET o == sendICMPReply(in) IN
                        Outcome(<<isR>> \o o.calls, o.ret, o.eth)
                   ELSE Outcome(<<isR>>, Nil, in.eth)
         ELSE IF dst.err
              THEN Outcome(<<isR>> \o dst.calls, Err("checking my networks"),
                           in.eth)
         ELSE IF dst.mine
              THEN handleIncoming(in, <<isR>> \o dst.calls)
              ELSE handleOutgoing(in, <<isR>> \o dst.calls)

\* Router.OnPacketIn from the IPv4 decoding on
handleIPv4(in) ==
    IF in.eth.Payload = Garbage
    THEN Outcome(<<>>, Err("IPv4.UnmarshalBinary"), in.eth)
    ELSE LET ipv4 == in.eth.Payload
             rFailed == in.fault = "db.IsRouter"
             isR == RCall("db.IsRouter", ipv4.DstIP,
                          IF rFailed THEN Err("db.IsRouter")
                          ELSE ipv4.DstIP \in RouterIPs)
             dst == isMyNetwork(in, ipv4.DstIP, "db.GetNetworks(dst)") IN
         IF rFailed THEN Outcome(<<isR>>, Err("checking router IP"), in.eth)
         ELSE IF isR.ret
              THEN IF ipv4.Protocol = ProtocolICMP
                   THEN LET o == sendICMPReply(in) IN
                        Outcome(<<isR>> \o o.calls, o.ret, o.eth)
                   ELSE Outcome(<<isR>>, Nil, in.eth)
         ELSE IF dst.err
              THEN Outcome(<<isR>> \o dst.calls, Err("checking my networks"),
                           in.eth)
         ELSE IF dst.mine
              THEN handleIncoming(in, <<isR>> \o dst.calls)
              ELSE handleOutgoing(in, <<isR>> \o dst.calls)

\* return r.BaseProcessor.OnPacketIn(finder, ingress, eth)
passThrough(in) ==
    LET next == NextProcessor(in, in.eth) IN Outcome(<<next>>, next.ret, in.eth)

\* a plausible slip: the EtherType is tested before the destination MAC
OnPacketInTypeFirst(in) ==
    IF in.eth.Type # EtherTypeIPv4 THEN Outcome(<<>>, Nil, in.eth)
    ELSE IF in.eth.DstMAC # VirtualMAC THEN passThrough(in)
    ELSE handleIPv4(in)

\* a plausible slip: a non-IPv4 frame is passed on instead of dropped
OnPacketInPassesNonIPv4(in) ==
    IF in.eth.DstMAC # VirtualMAC THEN passThrough(in)
    ELSE IF in.eth.Type # EtherTypeIPv4 THEN passThrough(in)
    ELSE handleIPv4(in)

\* Router.OnPacketIn
OnPacketIn(in) ==
    IF in.eth.DstMAC # VirtualMAC THEN passThrough(in)
    ELSE IF in.eth.Type # EtherTypeIPv4 THEN Outcome(<<>>, Nil, in.eth)
    ELSE handleIPv4(in)

\* the session task hands one PACKET_IN at a time to the processor chain
NoPacket == [handled |-> FALSE]

Inputs ==
    [eth : Frames, ingress : {<<1, 1>>, <<2, 1>>},
     hosts : {<<>>, [ip \in {HostIP} |-> HostB],
              [ip \in {HostIP} |-> VirtualMAC]},
     gateways : {<<>>, <<Gateway1>>, <<Gateway1, Gateway2>>},
     node : {NoNode, <<1, 2>>, <<2, 1>>},
     hasPath : BOOLEAN, pick : {0, 1}, fault : Faults]

PacketIn ==
    /\ pkt = NoPacket
    /\ \E in \in Inputs :
          pkt' = [handled |-> TRUE, in |-> in, out |-> OnPacketIn(in)]
    /\ UNCHANGED notRouter

\* the handler has returned and the session reads its next message
Returned ==
    /\ pkt # NoPacket
    /\ pkt' = NoPacket
    /\ UNCHANGED notRouter

RouterInit == pkt = NoPacket

(***************************************************************************)
(* Firewall: a processor that embeds BaseProcessor and overrides none of   *)
(* its callbacks.                                                          *)
(***************************************************************************)
\* what the next processor of the chain may return
NextResults == {Nil, Err("next")}

\* BaseProcessor.OnXxx: the default callback forwards the call, with its
\* arguments, to the next processor and returns what that returns
BaseProcessorOn(kind, args, ret) ==
    [calls |-> <<RCall(kind, args, ret)>>, ret |-> ret]

\* a plausible slip: the stub swallows packet-ins
FirewallConsumesPacketIn(kind, args, ret) ==
    IF kind = "OnPacketIn" THEN [calls |-> <<>>, ret |-> Nil]
    ELSE BaseProcessorOn(kind, args, ret)

\* Firewall.OnXxx: promoted from the embedded BaseProcessor
FirewallOn(kind, args, ret) == BaseProcessorOn(kind, args, ret)

\* what the Firewall did with one event
FirewallRecord(kind, args, ret) ==
    [kind |-> kind, args |-> args, out |-> FirewallOn(kind, args, ret)]

FirewallOnPacketIn ==
    /\ \E port \in {<<1, 1>>, <<2, 1>>}, eth \in Frames, ret \in NextResults :
          fw' = FirewallRecord("OnPacketIn", <<port, eth>>, ret)
    /\ UNCHANGED notFirewall

FirewallOnPortUp ==
    /\ \E port \in PortIDs, ret \in NextResults :
          fw' = FirewallRecord("OnPortUp", <<port>>, ret)
    /\ UNCHANGED notFirewall

FirewallOnPortDown ==
    /\ \E port \in PortIDs, ret \in NextResults :
          fw' = FirewallRecord("OnPortDown", <<port>>, ret)
    /\ UNCHANGED notFirewall

FirewallOnDeviceUp ==
    /\ \E d \in 1..MaxDevices, ret \in NextResults :
          fw' = FirewallRecord("OnDeviceUp", <<d>>, ret)
    /\ UNCHANGED notFirewall

FirewallOnDeviceDown ==
    /\ \E d \in 1..MaxDevices, ret \in NextResults :
          fw' = FirewallRecord("OnDeviceDown", <<d>>, ret)
    /\ UNCHANGED notFirewall

FirewallOnTopologyChange ==
    /\ \E ret \in NextResults :
          fw' = FirewallRecord("OnTopologyChange", <<>>, ret)
    /\ UNCHANGED notFirewall

\* New: no event handled yet
FirewallInit ==
    fw = [kind |-> "none", args |-> <<>>, out |-> [calls |-> <<>>, ret |-> Nil]]

(***************************************************************************)
(* Device and Port under concurrent callers: the mutexes, the nil checks   *)
(* and the deferred unlocks.                                               *)
(***************************************************************************)
Tasks == 1..NumTasks
PortNums == {1, 2}
PortObjects == 1..MaxPortObjects

Loggers == {"nil", "log"}
Sessions == {"nil", "session"}
Factories == {"nil", "of13"}
PortValues == {"nil", "up"}
Messages == {"nil", "flow"}

\* Device.mutex held for writing, held for reading, and a Port's mutex
DeviceLock == <<"Device.mutex", 0>>
DeviceRLock == <<"Device.mutex(R)", 0>>
PortLock(obj) == <<"Port.mutex", obj>>

Others(t) == Tasks \ {t}
\* sync.RWMutex: Lock waits for every holder, RLock for the writer
CanLock(t) ==
    \A u \in Others(t) : DeviceLock \notin held[u] /\ DeviceRLock \notin held[u]
CanRLock(t) == \A u \in Others(t) : DeviceLock \notin held[u]
CanLockPort(t, obj) == \A u \in Others(t) : PortLock(obj) \notin held[u]

NoCall ==
    [op |-> "none", pc |-> "idle", num |-> 0, arg |-> <<>>, obj |-> 0,
     result |-> "none"]
InCall(op, pc, num, arg) ==
    [op |-> op, pc |-> pc, num |-> num, arg |-> arg, obj |-> 0,
     result |-> "none"]
\* the task is between two calls
Free(t) == task[t].pc \in {"idle", "done"}
At(t, op, pc) == task[t].op = op /\ task[t].pc = pc

DeviceState == <<factory, ports, value, nextObj, written, portNodes>>

\* NewController
NewController ==
    \E t \in Tasks, log \in Loggers :
        /\ Free(t)
        /\ task' = [task EXCEPT ![t] =
                      [InCall("NewController", "done", 0, <<log>>) EXCEPT
                          !.result = IF log = "nil" THEN "panic"
                                     ELSE "controller"]]
        /\ UNCHANGED <<held, DeviceState, notDevice>>

\* newDevice
newDevice ==
    \E t \in Tasks, log \in Loggers, s \in Sessions :
        /\ Free(t)
        /\ task' = [task EXCEPT ![t] =
                      [InCall("newDevice", "done", 0, <<log, s>>) EXCEPT
                          !.result = IF log = "nil" \/ s = "nil" THEN "panic"
                                     ELSE "device"]]
        /\ UNCHANGED <<held, DeviceState, notDevice>>

\* the calls that start with r.mutex.Lock()
WriteCalls ==
    [op : {"setFactory"}, num : {0}, arg : {<<f>> : f \in Factories}]
    \cup [op : {"addPort", "updatePort"}, num : PortNums,
          arg : {<<p>> : p \in PortValues}]
    \cup [op : {"SendMessage"}, num : {0}, arg : {<<m>> : m \in Messages}]

\* NewPort allocates: the model has MaxPortObjects objects to hand out
MayAllocate(c) ==
    \/ c.op \notin {"addPort", "updatePort"}
    \/ c.arg = <<"nil">>
    \/ c.op = "updatePort" /\ ports[c.num] # 0
    \/ nextObj <= MaxPortObjects

\* r.mutex.Lock() of setFactory, addPort, updatePort and SendMessage
Lock ==
    \E t \in Tasks, c \in WriteCalls :
        /\ Free(t)
        /\ CanLock(t)
        /\ MayAllocate(c)
        /\ task' = [task EXCEPT ![t] = InCall(c.op, "locked", c.num, c.arg)]
        /\ held' = [held EXCEPT ![t] = @ \cup {DeviceLock}]
        /\ UNCHANGED <<DeviceState, notDevice>>

\* panic(...): the deferred Unlock is what runs next
Panicking(t) == [task EXCEPT ![t].pc = "unlock", ![t].result = "panic"]

\* a plausible slip: the factory is stored before it is checked
setFactoryStoresFirst ==
    \E t \in Tasks :
        /\ At(t, "setFactory", "locked")
        /\ factory' = task[t].arg[1]
        /\ IF task[t].arg[1] = "nil"
           THEN task' = Panicking(t)
           ELSE task' = [task EXCEPT ![t].pc = "unlock", ![t].result = "ok"]
        /\ UNCHANGED <<held, ports, value, nextObj, written, portNodes, notDevice>>

\* Device.setFactory, after the lock
setFactory ==
    \E t \in Tasks :
        /\ At(t, "setFactory", "locked")
        /\ IF task[t].arg[1] = "nil"
           THEN task' = Panicking(t) /\ UNCHANGED factory
           ELSE /\ factory' = task[t].arg[1]
                /\ task' = [task EXCEPT ![t].pc = "unlock", ![t].result = "ok"]
        /\ UNCHANGED <<held, ports, value, nextObj, written, portNodes, notDevice>>

\* Device.setPort up to port.SetValue: port := NewPort(r, num)
NewPortFor(t) ==
    /\ task' = [task EXCEPT ![t].pc = "SetValue", ![t].obj = nextObj]
    /\ nextObj' = nextObj + 1

\* Device.addPort, after the lock
addPort ==
    \E t \in Tasks :
        /\ At(t, "addPort", "locked")
        /\ IF task[t].arg[1] = "nil"
           THEN task' = Panicking(t) /\ UNCHANGED nextObj
           ELSE NewPortFor(t)
        /\ UNCHANGED <<held, factory, ports, value, written, portNodes, notDevice>>

\* a plausible slip: updatePort builds a new Port whether or not one exists
updatePortAlwaysReplaces ==
    \E t \in Tasks :
        /\ At(t, "updatePort", "locked")
        /\ nextObj <= MaxPortObjects \/ task[t].arg[1] = "nil"
        /\ IF task[t].arg[1] = "nil"
           THEN task' = Panicking(t) /\ UNCHANGED nextObj
           ELSE NewPortFor(t)
        /\ UNCHANGED <<held, factory, ports, value, written, portNodes, notDevice>>

\* Device.updatePort, after the lock
updatePort ==
    \E t \in Tasks :
        /\ At(t, "updatePort", "locked")
        /\ IF task[t].arg[1] = "nil"
           THEN task' = Panicking(t) /\ UNCHANGED nextObj
           ELSE IF ports[task[t].num] = 0
                THEN NewPortFor(t)
                ELSE /\ task' = [task EXCEPT ![t].pc = "SetValue",
                                             ![t].obj = ports[task[t].num]]
                     /\ UNCHANGED nextObj
        /\ UNCHANGED <<held, factory, ports, value, written, portNodes, notDevice>>

\* the Port objects a caller outside the Device can hold
Published == {ports[n] : n \in PortNums} \ {0}

\* Port.SetValue: r.mutex.Lock(), called by setPort, by updatePort or directly
SetValueLock ==
    \E t \in Tasks :
        \/ /\ task[t].pc = "SetValue"
           /\ CanLockPort(t, task[t].obj)
           /\ task' = [task EXCEPT ![t].pc = "SetValueLocked"]
           /\ held' = [held EXCEPT ![t] = @ \cup {PortLock(task[t].obj)}]
           /\ UNCHANGED <<DeviceState, notDevice>>
        \/ \E obj \in Published, p \in PortValues :
              /\ Free(t)
              /\ CanLockPort(t, obj)
              /\ task' = [task EXCEPT ![t] =
                            [InCall("Port.SetValue", "SetValueLocked", 0, <<p>>)
                                EXCEPT !.obj = obj]]
              /\ held' = [held EXCEPT ![t] = @ \cup {PortLock(obj)}]
              /\ UNCHANGED <<DeviceState, notDevice>>

\* Port.SetValue: r.value = p and the deferred r.mutex.Unlock(); the caller
\* goes on with r.ports[num] = port (setPort), with its own deferred Unlock
\* (updatePort of a known port) or is done
SetValue ==
    \E t \in Tasks :
        /\ task[t].pc = "SetValueLocked"
        /\ value' = [value EXCEPT ![task[t].obj] = task[t].arg[1]]
        /\ held' = [held EXCEPT ![t] = @ \ {PortLock(task[t].obj)}]
        /\ task' = [task EXCEPT
                      ![t].pc = IF task[t].op = "Port.SetValue" THEN "done"
                                ELSE IF ports[task[t].num] = task[t].obj
                                     THEN "unlock"
                                     ELSE "store",
                      ![t].result = "ok"]
        /\ UNCHANGED <<factory, ports, nextObj, written, portNodes, notDevice>>

\* Device.setPort: r.ports[num] = port
setPort ==
    \E t \in Tasks :
        /\ task[t].pc = "store"
        /\ ports' = [ports EXCEPT ![task[t].num] = task[t].obj]
        /\ task' = [task EXCEPT ![t].pc = "unlock"]
        /\ UNCHANGED <<held, factory, value, nextObj, written, portNodes, notDevice>>

\* Device.SendMessage, after the lock: the nil check, then into session.Write
SendMessage ==
    \E t \in Tasks :
        /\ At(t, "SendMessage", "locked")
        /\ IF task[t].arg[1] = "nil"
           THEN task' = Panicking(t)
           ELSE task' = [task EXCEPT ![t].pc = "inWrite"]
        /\ UNCHANGED <<held, DeviceState, notDevice>>

\* session.Write returns, with or without an error
Write ==
    \E t \in Tasks, res \in {"ok", "error"} :
        /\ At(t, "SendMessage", "inWrite")
        /\ written' = written \cup {task[t].arg[1]}
        /\ task' = [task EXCEPT ![t].pc = "unlock", ![t].result = res]
        /\ UNCHANGED <<held, factory, ports, value, nextObj, portNodes, notDevice>>

\* defer r.mutex.Unlock(): runs on return and while a panic unwinds
Unlock ==
    \E t \in Tasks :
        /\ task[t].pc = "unlock"
        /\ held' = [held EXCEPT ![t] = @ \ {DeviceLock}]
        /\ task' = [task EXCEPT ![t].pc = "done"]
        /\ UNCHANGED <<DeviceState, notDevice>>

\* r.mutex.RLock() of ID, Factory, Port, Ports and FlowTableID
RLock ==
    \E t \in Tasks :
        /\ Free(t)
        /\ CanRLock(t)
        /\ task' = [task EXCEPT ![t] = InCall("Getter", "rlocked", 0, <<>>)]
        /\ held' = [held EXCEPT ![t] = @ \cup {DeviceRLock}]
        /\ UNCHANGED <<DeviceState, notDevice>>

\* the getter's return and its deferred r.mutex.RUnlock()
RUnlock ==
    \E t \in Tasks :
        /\ At(t, "Getter", "rlocked")
        /\ held' = [held EXCEPT ![t] = @ \ {DeviceRLock}]
        /\ task' = [task EXCEPT ![t].pc = "done", ![t].result = "ok"]
        /\ UNCHANGED <<DeviceState, notDevice>>

\* Port.AddNode on a Port obtained from Device.Port or Device.Ports, under
\* the Port's mutex
PortAddNode ==
    \E t \in Tasks, obj \in Published :
        /\ Free(t)
        /\ CanLockPort(t, obj)
        /\ Len(portNodes[obj]) < MaxLearned
        /\ portNodes' = [portNodes EXCEPT ![obj] = Append(@, HostA)]
        /\ task' = [task EXCEPT ![t] =
                      [InCall("Port.AddNode", "done", 0, <<>>) EXCEPT
                          !.obj = obj, !.result = "ok"]]
        /\ UNCHANGED <<held, factory, ports, value, nextObj, written, notDevice>>

\* newDevice: no factory, an empty port map, nothing written
DeviceInit ==
    /\ task = [t \in Tasks |-> NoCall]
    /\ held = [t \in Tasks |-> {}]
    /\ factory = "nil"
    /\ ports = [n \in PortNums |-> 0]
    /\ value = [o \in PortObjects |-> "nil"]
    /\ nextObj = 1
    /\ written = {}
    /\ portNodes = [o \in PortObjects |-> <<>>]

(***************************************************************************)
(* The database schema: tables ip, host and vip, their keys and the        *)
(* triggers that maintain ip.used.                                         *)
(***************************************************************************)
IPIDs == 1..NumIPs

\* TRIGGER disable_ip AFTER INSERT ON host
disable_ip(used, new) == [used EXCEPT ![new.ip_id] = 1]

\* TRIGGER update_ip AFTER UPDATE ON host
update_ip(used, old, new) ==
    [[used EXCEPT ![old.ip_id] = 0] EXCEPT ![new.ip_id] = 1]

\* TRIGGER enable_ip AFTER DELETE ON host
enable_ip(used, old) == [used EXCEPT ![old.ip_id] = 0]

\* TRIGGER disable_vip AFTER INSERT ON vip
disable_vip(used, new) == [used EXCEPT ![new.ip_id] = 1]

\* TRIGGER update_vip AFTER UPDATE ON vip
update_vip(used, old, new) ==
    [[used EXCEPT ![old.ip_id] = 0] EXCEPT ![new.ip_id] = 1]

\* TRIGGER enable_vip AFTER DELETE ON vip
enable_vip(used, old) == [used EXCEPT ![old.ip_id] = 0]

\* UNIQUE KEY ip (ip_id) of host, and of vip
HostKeyFree(ip, except) == \A h \in hostRows \ except : h.ip_id # ip
VipKeyFree(ip, except) == \A v \in vipRows \ except : v.ip_id # ip
HostIDs == {h.id : h \in hostRows}

\* INSERT INTO host
InsertHost ==
    \E ip \in IPIDs :
        LET new == [id |-> nextHostID, ip_id |-> ip] IN
        /\ nextHostID <= MaxHostID
        /\ HostKeyFree(ip, {})
        /\ hostRows' = hostRows \cup {new}
        /\ nextHostID' = nextHostID + 1
        /\ ipUsed' = disable_ip(ipUsed, new)
        /\ UNCHANGED <<vipRows, nextVipID, notSchema>>

\* UPDATE host SET ip_id = ... WHERE id = ...
UpdateHost ==
    \E old \in hostRows, ip \in IPIDs :
        LET new == [old EXCEPT !.ip_id = ip] IN
        /\ HostKeyFree(ip, {old})
        /\ hostRows' = (hostRows \ {old}) \cup {new}
        /\ ipUsed' = update_ip(ipUsed, old, new)
        /\ UNCHANGED <<vipRows, nextHostID, nextVipID, notSchema>>

\* DELETE FROM host: vip_ibfk_2 and vip_ibfk_3 are ON DELETE RESTRICT
DeleteHost ==
    \E old \in hostRows :
        /\ \A v \in vipRows :
              v.active_host_id # old.id /\ v.standby_host_id # old.id
        /\ hostRows' = hostRows \ {old}
        /\ ipUsed' = enable_ip(ipUsed, old)
        /\ UNCHANGED <<vipRows, nextHostID, nextVipID, notSchema>>

\* INSERT INTO vip
InsertVip ==
    \E ip \in IPIDs, active \in HostIDs, standby \in HostIDs :
        LET new == [id |-> nextVipID, ip_id |-> ip, active_host_id |-> active,
                    standby_host_id |-> standby] IN
        /\ nextVipID <= MaxVipID
        /\ VipKeyFree(ip, {})
        /\ vipRows' = vipRows \cup {new}
        /\ nextVipID' = nextVipID + 1
        /\ ipUsed' = disable_vip(ipUsed, new)
        /\ UNCHANGED <<hostRows, nextHostID, notSchema>>

\* UPDATE vip SET ip_id = ... WHERE id = ...
UpdateVip ==
    \E old \in vipRows, ip \in IPIDs :
        LET new == [old EXCEPT !.ip_id = ip] IN
        /\ VipKeyFree(ip, {old})
        /\ vipRows' = (vipRows \ {old}) \cup {new}
        /\ ipUsed' = update_vip(ipUsed, old, new)
        /\ UNCHANGED <<hostRows, nextHostID, nextVipID, notSchema>>

\* DELETE FROM vip
DeleteVip ==
    \E old \in vipRows :
        /\ vipRows' = vipRows \ {old}
        /\ ipUsed' = enable_vip(ipUsed, old)
        /\ UNCHANGED <<hostRows, nextHostID, nextVipID, notSchema>>

\* the schema as created: ip rows with used at its default, no host, no vip
SchemaInit ==
    /\ ipUsed = [i \in IPIDs |-> 0]
    /\ hostRows = {}
    /\ vipRows = {}
    /\ nextHostID = 1
    /\ nextVipID = 1

(***************************************************************************)
(* Controller: the event listener and the sessions it starts.              *)
(***************************************************************************)
NilListener == "nil"
\* an interface value read while it is being written: neither old nor new
TornListener == "torn"
Listeners == {"chain1", "chain2"}
NoSetter == [writing |-> FALSE, l |-> NilListener, stored |-> FALSE]

\* SetEventListener is called: r.listener = l is about to execute
SetEventListener ==
    \E l \in Listeners :
        /\ setter = NoSetter
        /\ setter' = [writing |-> TRUE, l |-> l, stored |-> FALSE]
        /\ UNCHANGED <<listener, topoListener, sessions, notController>>

\* r.listener = l
StoreListener ==
    /\ setter.writing /\ ~setter.stored
    /\ listener' = setter.l
    /\ setter' = [setter EXCEPT !.stored = TRUE]
    /\ UNCHANGED <<topoListener, sessions, notController>>

\* r.topo.setEventListener(l), and SetEventListener returns
SetTopologyListener ==
    /\ setter.writing /\ setter.stored
    /\ topoListener' = setter.l
    /\ setter' = NoSetter
    /\ UNCHANGED <<listener, sessions, notController>>

\* what the unsynchronised read of r.listener may yield: the field's value,
\* or, while the assignment is pending, also the new or a torn value
ReadListener ==
    IF setter.writing /\ ~setter.stored
    THEN {listener, setter.l, TornListener}
    ELSE {listener}

\* the sessionConfig of AddConnection
sessionConfig(l) ==
    [logger |-> "log", watcher |-> "topo", finder |-> "topo", listener |-> l]

\* Controller.AddConnection: newSession(conf); go session.Run(ctx)
AddConnection ==
    \E l \in ReadListener :
        /\ Len(sessions) < MaxSessions
        /\ sessions' = Append(sessions, sessionConfig(l))
        /\ UNCHANGED <<listener, topoListener, setter, notController>>

\* NewController: no listener yet, no session
ControllerInit ==
    /\ listener = NilListener
    /\ topoListener = NilListener
    /\ setter = NoSetter
    /\ sessions = <<>>

(***************************************************************************)
(* POST /api/v1/switch from several clients at once: the handler's two     *)
(* database calls are separate steps.                                      *)
(***************************************************************************)
Clients == 1..NumClients
ValidBodies == {b \in Bodies : ~DecodeFails(b) /\ ~validate(DecodeSwitch(b))}
\* the err the handler holds: nil, a failed query, or the key's rejection
NoError == "nil"
QueryError == "query failed"
DuplicateEntry == "duplicate entry for key dpid"
NoPost ==
    [pc |-> "idle", sw |-> DecodeSwitch(NoBody), status |-> okay,
     err |-> NoError]

\* a plausible slip: the table has no unique key on dpid
NoUniqueKey(table, sw) == FALSE

\* UNIQUE KEY dpid (dpid): the INSERT is rejected when the DPID is there
DuplicateKey(table, sw) == \E r \in table : r.dpid = sw.DPID

\* addSwitch up to r.db.Switch(sw.DPID): decode, validate, look up
PostLookup ==
    \E c \in Clients, body \in ValidBodies, err \in BOOLEAN :
        LET sw == DecodeSwitch(body) IN
        /\ post[c].pc = "idle"
        /\ post' = [post EXCEPT ![c] =
                      IF err THEN [pc |-> "done", sw |-> sw,
                                   status |-> queryFailed, err |-> QueryError]
                      ELSE IF dbSwitch(switches, sw.DPID)
                           THEN [pc |-> "done", sw |-> sw,
                                 status |-> duplicatedDPID, err |-> NoError]
                           ELSE [pc |-> "insert", sw |-> sw, status |-> okay,
                                 err |-> NoError]]
        /\ UNCHANGED notPost

\* r.db.AddSwitch(sw) and the status written after it
PostInsert ==
    \E c \in Clients, err \in BOOLEAN :
        /\ post[c].pc = "insert"
        /\ IF err \/ DuplicateKey(switches, post[c].sw)
           THEN /\ post' = [post EXCEPT
                              ![c].pc = "done",
                              ![c].status = queryFailed,
                              ![c].err =
                                  IF DuplicateKey(switches, post[c].sw)
                                  THEN DuplicateEntry ELSE QueryError]
                /\ UNCHANGED <<switches, nextID>>
           ELSE /\ post' = [post EXCEPT ![c].pc = "done", ![c].status = okay]
                /\ switches' = dbAddSwitch(switches, nextID, post[c].sw)
                /\ nextID' = nextID + 1
        /\ UNCHANGED restOfPost

\* the client has its answer and may post again
PostReturn ==
    \E c \in Clients :
        /\ post[c].pc = "done"
        /\ post' = [post EXCEPT ![c] = NoPost]
        /\ UNCHANGED notPost

PostInit == post = [c \in Clients |-> NoPost]

(***************************************************************************)
(* Port.nodes as a Go slice: a header of backing array, len and cap, and   *)
(* the arrays the headers point into.                                      *)
(***************************************************************************)
ArrayIDs == 1..(MaxSnapshots + 3)
NoArray == 0
\* make([]*Node, 0)
EmptySlice == [array |-> NoArray, len |-> 0, cap |-> 0]

\* the elements visible through a slice
Elements(h, sl) == [i \in 1..sl.len |-> h[sl.array][i]]

\* the arrays that r.nodes and the returned slices keep alive
Referenced(sl, snaps) == {sl.array} \cup {s.slice.array : s \in snaps}

\* an array nothing points into is collected
Collect(h, live) == [a \in ArrayIDs |-> IF a \in live THEN h[a] ELSE <<>>]

\* the capacity append grows a full slice to
GrowCap(cap) == IF cap = 0 THEN 1 ELSE 2 * cap

\* append(sl, x): in place while the capacity allows, else the elements are
\* copied into a new, larger array
GoAppend(h, sl, x, live) ==
    IF sl.len < sl.cap
    THEN [heap |-> [h EXCEPT ![sl.array][sl.len + 1] = x],
          slice |-> [sl EXCEPT !.len = @ + 1]]
    ELSE LET free == ArrayIDs \ live
             a == CHOOSE a \in free : \A b \in free : a <= b
             cap == GrowCap(sl.cap) IN
         [heap |-> [h EXCEPT ![a] =
                      [i \in 1..cap |->
                          IF i <= sl.len THEN h[sl.array][i]
                          ELSE IF i = sl.len + 1 THEN x ELSE NoNode]],
          slice |-> [array |-> a, len |-> sl.len + 1, cap |-> cap]]

\* the loop of Port.RemoveNode over the slice header it read at the start
RECURSIVE RemoveLoop(_, _, _, _, _, _)
RemoveLoop(h, old, i, mac, kept, pinned) ==
    IF i > old.len THEN [heap |-> h, slice |-> kept]
    ELSE LET v == h[old.array][i] IN
         IF MACString(v) = MACString(mac)
         THEN RemoveLoop(h, old, i + 1, mac, kept, pinned)
         ELSE LET r == GoAppend(h, kept, v, pinned \cup {kept.array}) IN
              RemoveLoop(r.heap, old, i + 1, mac, r.slice, pinned)

\* a plausible slip: the nodes are filtered in place, nodes := r.nodes[:0]
removeNodeInPlace(h, old, mac, pinned) ==
    RemoveLoop(h, old, 1, mac, [old EXCEPT !.len = 0], pinned)

\* Port.RemoveNode: the kept nodes are appended to a new, empty slice
removeNode(h, old, mac, pinned) ==
    RemoveLoop(h, old, 1, mac, EmptySlice, pinned)

\* Port.Nodes: the caller gets r.nodes itself, header and backing array
Nodes ==
    /\ Cardinality(returned) < MaxSnapshots
    /\ returned' = returned \cup
                     {[slice |-> header, seen |-> Elements(arrays, header)]}
    /\ UNCHANGED <<arrays, header, notSlice>>

\* Port.AddNode on this Port: r.nodes = append(r.nodes, node)
AppendNode ==
    \E mac \in MACs :
        LET r == GoAppend(arrays, header, mac, Referenced(header, returned))
        IN /\ header.len < MaxListLen
           /\ header' = r.slice
           /\ arrays' = Collect(r.heap, Referenced(r.slice, returned))
           /\ UNCHANGED <<returned, notSlice>>

\* Port.RemoveNode on this Port
FilterNodes ==
    \E mac \in MACs :
        LET r == removeNode(arrays, header, mac,
                            Referenced(header, returned))
        IN /\ header' = r.slice
           /\ arrays' = Collect(r.heap, Referenced(r.slice, returned))
           /\ UNCHANGED <<returned, notSlice>>

\* NewPort: nodes is make([]*Node, 0)
SliceInit ==
    /\ arrays = [a \in ArrayIDs |-> <<>>]
    /\ header = EmptySlice
    /\ returned = {}

Init ==
    /\ RestInit /\ PortInit /\ RouterInit /\ FirewallInit /\ DeviceInit
    /\ SchemaInit /\ ControllerInit /\ PostInit /\ SliceInit

RestNext ==
    GetSwitch \/ PostSwitch \/ DeleteSwitch \/ Respond \/ DeviceUp \/ DeviceDown

PortNext == AddNode \/ RemoveNode

RouterNext == PacketIn \/ Returned

FirewallNext ==
    \/ FirewallOnPacketIn
    \/ FirewallOnPortUp
    \/ FirewallOnPortDown
    \/ FirewallOnDeviceUp
    \/ FirewallOnDeviceDown
    \/ FirewallOnTopologyChange

DeviceNext ==
    \/ NewController
    \/ newDevice
    \/ Lock
    \/ setFactory
    \/ addPort
    \/ updatePort
    \/ SetValueLock
    \/ SetValue
    \/ setPort
    \/ SendMessage
    \/ Write
    \/ Unlock
    \/ RLock
    \/ RUnlock
    \/ PortAddNode

SpecRest == Init /\ [][RestNext]_vars

SpecPort == Init /\ [][PortNext]_vars

SpecRouter == Init /\ [][RouterNext]_vars

SpecFirewall == Init /\ [][FirewallNext]_vars

SpecDevice == Init /\ [][DeviceNext]_vars

SchemaNext ==
    \/ InsertHost
    \/ UpdateHost
    \/ DeleteHost
    \/ InsertVip
    \/ UpdateVip
    \/ DeleteVip

SpecSchema == Init /\ [][SchemaNext]_vars

ControllerNext ==
    \/ SetEventListener
    \/ StoreListener
    \/ SetTopologyListener
    \/ AddConnection

SpecController == Init /\ [][ControllerNext]_vars

PostNext == PostLookup \/ PostInsert \/ PostReturn

SpecPost == Init /\ [][PostNext]_vars

SliceNext == Nodes \/ AppendNode \/ FilterNodes

SpecSlice == Init /\ [][SliceNext]_vars


(***************************************************************************)
(* What the last REST request did, read from its record.                   *)
(***************************************************************************)
IsPost == rest.op = "add"
IsDelete == rest.op = "remove"
IsRequest == rest.op \in {"list", "add", "remove"}

\* the database calls of the request, and whether one of them failed
DbCalls == {i \in 1..Len(rest.calls) : rest.calls[i].fn # "RemoveAllFlows"}
DbFailed == \E i \in DbCalls : rest.calls[i].err

\* the positions of the request's RemoveAllFlows calls, of device d or of any
ClearsOf(d) ==
    {i \in 1..Len(rest.calls) :
        rest.calls[i].fn = "RemoveAllFlows" /\ rest.calls[i].arg = d}
AnyClear == \E i \in 1..Len(rest.calls) : rest.calls[i].fn = "RemoveAllFlows"

\* a POST that decodes and passes validation
ValidPost == IsPost /\ ~DecodeFails(rest.body) /\ ~validate(DecodeSwitch(rest.body))

RegisteredBefore(dpid) == \E r \in rest.swBefore : r.dpid = dpid

\* the request added exactly the switch of its body, and nothing else changed
AddedExactlyThat ==
    /\ rest.swBefore \subseteq rest.swAfter
    /\ \E r \in rest.swAfter \ rest.swBefore :
        /\ rest.swAfter = rest.swBefore \cup {r}
        /\ r.dpid = rest.body.dpid
        /\ r.n_ports = rest.body.n_ports
        /\ r.first_port = rest.body.first_port

\* a DELETE whose id parses and names a row of the table
DeleteOfRegistered ==
    /\ IsDelete
    /\ ~ParseUintFails(rest.param)
    /\ \E r \in rest.swBefore : r.id = ParseUintValue(rest.param)

\* the row is gone, the database was asked first, and then every device of the
\* topology was sent remove-all-flows exactly once
RemovedThenCleared ==
    /\ rest.swAfter = {r \in rest.swBefore : r.id # ParseUintValue(rest.param)}
    /\ Len(rest.calls) = 1 + Cardinality(rest.devBefore)
    /\ rest.calls[1].fn = "db.RemoveSwitch"
    /\ rest.calls[1].arg = ParseUintValue(rest.param)
    /\ \A d \in rest.devBefore : Cardinality(ClearsOf(d)) = 1

SessionsUntouched ==
    /\ ~AnyClear
    /\ rest.devAfter = rest.devBefore

(***************************************************************************)
(* C1: for every decodable POST body the status is invalidParam exactly    *)
(* when n_ports > 512 or first_port + n_ports > 0xFFFF, the sum taken      *)
(* without 16-bit wrap-around; then the database is neither queried nor    *)
(* modified.                                                               *)
(***************************************************************************)
C1_InvalidParamExactly ==
    (IsPost /\ ~DecodeFails(rest.body)) =>
        /\ (rest.status = invalidParam) <=>
              (rest.body.n_ports > MaxNumPorts
               \/ rest.body.first_port + rest.body.n_ports > MaxPortNumber)
        /\ (rest.status = invalidParam) =>
              (rest.calls = <<>> /\ rest.swAfter = rest.swBefore)

\* rejected for the sum alone, where a 16-bit sum would have wrapped
C1_Witness ==
    /\ IsPost /\ ~DecodeFails(rest.body)
    /\ rest.status = invalidParam
    /\ rest.body.n_ports <= MaxNumPorts
    /\ rest.calls = <<>>

(***************************************************************************)
(* C2 as stated: once a valid POST for a DPID returned okay, every later   *)
(* valid POST with that DPID (no DELETE of the switch in between) returns  *)
(* duplicatedDPID and leaves the registered switches unchanged; a valid    *)
(* POST for a DPID that is not registered adds exactly that switch and     *)
(* returns okay.                                                           *)
(***************************************************************************)
C2_AsStated ==
    ValidPost =>
        /\ (rest.body.dpid \in rest.okayedBefore) =>
              (rest.status = duplicatedDPID /\ rest.swAfter = rest.swBefore)
        /\ ~RegisteredBefore(rest.body.dpid) =>
              (rest.status = okay /\ AddedExactlyThat)

(***************************************************************************)
(* C2 amended: the same, unless a database call of the request fails; then *)
(* the POST returns queryFailed and the registered switches are unchanged. *)
(***************************************************************************)
C2_DuplicateUnlessDbFails ==
    ValidPost =>
        /\ (rest.body.dpid \in rest.okayedBefore) =>
              /\ rest.swAfter = rest.swBefore
              /\ rest.status = IF DbFailed THEN queryFailed ELSE duplicatedDPID
        /\ ~RegisteredBefore(rest.body.dpid) =>
              IF DbFailed
              THEN rest.status = queryFailed /\ rest.swAfter = rest.swBefore
              ELSE rest.status = okay /\ AddedExactlyThat

\* a second POST of a DPID whose first POST returned okay
C2_Witness ==
    /\ ValidPost
    /\ rest.body.dpid \in rest.okayedBefore
    /\ rest.status = duplicatedDPID
    /\ rest.swAfter = rest.swBefore

(***************************************************************************)
(* C3 as stated: a DELETE for a registered switch removes it from the      *)
(* database, then issues exactly one remove-all-flows to every device in   *)
(* the topology at that moment, and returns okay.                          *)
(***************************************************************************)
C3_AsStated ==
    DeleteOfRegistered => (rest.status = okay /\ RemovedThenCleared)

(***************************************************************************)
(* C3 amended: the same, unless the database's RemoveSwitch call fails;    *)
(* then the DELETE returns queryFailed, the switch stays registered and no *)
(* remove-all-flows is issued.                                             *)
(***************************************************************************)
C3_RemoveThenClearUnlessDbFails ==
    DeleteOfRegistered =>
        IF DbFailed
        THEN /\ rest.status = queryFailed
             /\ rest.swAfter = rest.swBefore
             /\ ~AnyClear
        ELSE rest.status = okay /\ RemovedThenCleared

\* a successful DELETE with two devices connected
C3_Witness ==
    /\ DeleteOfRegistered
    /\ rest.status = okay
    /\ Cardinality(rest.devBefore) >= 2
    /\ RemovedThenCleared

(***************************************************************************)
(* C4: during a successful switch removal a failure of remove-all-flows on *)
(* one device is not propagated: every other connected device is still     *)
(* sent its remove-all-flows and the response is okay.                     *)
(***************************************************************************)
C4_ClearFailureNotPropagated ==
    (DeleteOfRegistered /\ ~DbFailed
        /\ \E i \in 1..Len(rest.calls) :
              rest.calls[i].fn = "RemoveAllFlows" /\ rest.calls[i].err) =>
        /\ rest.status = okay
        /\ \A d \in rest.devBefore : Cardinality(ClearsOf(d)) = 1

\* the first device visited fails, a later one is still served
C4_Witness ==
    /\ DeleteOfRegistered
    /\ rest.status = okay
    /\ Len(rest.calls) >= 3
    /\ rest.calls[2].fn = "RemoveAllFlows" /\ rest.calls[2].err
    /\ rest.calls[3].fn = "RemoveAllFlows" /\ ~rest.calls[3].err

(***************************************************************************)
(* C5: a REST request that ends with a non-okay status touches no session: *)
(* no message to any device, topology unchanged.  DELETE with a            *)
(* non-numeric id returns invalidSwitchID, DELETE of an unregistered id    *)
(* unknownSwitchID, a database error queryFailed.  Only a successful       *)
(* DELETE sends anything to a device.                                      *)
(***************************************************************************)
C5_FailuresTouchNoSession ==
    IsRequest =>
        /\ (rest.status # okay) => SessionsUntouched
        /\ (IsDelete /\ ParseUintFails(rest.param)) =>
              rest.status = invalidSwitchID
        /\ (IsDelete /\ ~ParseUintFails(rest.param) /\ ~DbFailed
              /\ ~DeleteOfRegistered) => rest.status = unknownSwitchID
        /\ DbFailed => rest.status = queryFailed
        /\ ~SessionsUntouched => (IsDelete /\ rest.status = okay)

\* a DELETE of an id that is not registered, while a device is connected
C5_Witness ==
    /\ IsDelete
    /\ rest.status = unknownSwitchID
    /\ rest.devBefore # {}
    /\ SessionsUntouched

(***************************************************************************)
(* C6: after any sequence of AddNode and RemoveNode calls over the ports   *)
(* of all devices, every MAC has at most one Node across all ports' node   *)
(* lists; observing a MAC on a different port moves it there.              *)
(***************************************************************************)
\* the places (port, index) where a Node with this MAC sits
NodesOf(mac) ==
    {<<p, i>> \in PortIDs \X (1..MaxNodes) :
        i <= Len(nodes[p]) /\ nodes[p][i] = mac}

C6_AtMostOneNodePerMAC ==
    /\ \A mac \in MACs : Cardinality(NodesOf(mac)) <= 1
    /\ portOp.op = "AddNode" =>
          \A q \in PortIDs \ {portOp.port} :
              \A i \in 1..Len(nodes[q]) : nodes[q][i] # portOp.mac

(***************************************************************************)
(* C7: AddNode(mac) on a port whose node list already holds a Node with    *)
(* that MAC leaves the list unchanged, so a port never holds two Nodes     *)
(* with the same MAC.                                                      *)
(***************************************************************************)
C7_AddNodeIdempotent ==
    /\ (portOp.op = "AddNode"
          /\ \E i \in 1..Len(portOp.before[portOp.port]) :
                portOp.before[portOp.port][i] = portOp.mac) =>
          nodes[portOp.port] = portOp.before[portOp.port]
    /\ \A p \in PortIDs :
          \A i, j \in 1..Len(nodes[p]) : nodes[p][i] = nodes[p][j] => i = j

(***************************************************************************)
(* What the Router did with the packet-in it handled.                      *)
(***************************************************************************)
Handled == pkt # NoPacket
CallsTo(fn) == {i \in 1..Len(pkt.out.calls) : pkt.out.calls[i].fn = fn}
ToRouter == Handled /\ pkt.in.eth.DstMAC = VirtualMAC
SentNothing == CallsTo("SendMessage") = {} /\ CallsTo("PacketOut") = {}

(***************************************************************************)
(* C8: for a packet-in whose destination MAC is not the Router's virtual   *)
(* MAC the Router sends no flow-mod and no packet-out, queries no          *)
(* database, leaves the frame unmodified and forwards the event exactly    *)
(* once to the next processor, returning that processor's result.          *)
(***************************************************************************)
C8_NotForRouterPassesThrough ==
    (Handled /\ pkt.in.eth.DstMAC # VirtualMAC) =>
        /\ Len(pkt.out.calls) = 1
        /\ pkt.out.calls[1].fn = "Next.OnPacketIn"
        /\ pkt.out.calls[1].arg.port = pkt.in.ingress
        /\ pkt.out.calls[1].arg.eth = pkt.in.eth
        /\ pkt.out.ret = pkt.out.calls[1].ret
        /\ pkt.out.eth = pkt.in.eth

\* an ARP frame for a host is passed on and the next processor's error returned
C8_Witness ==
    /\ Handled
    /\ pkt.in.eth.DstMAC = HostB
    /\ pkt.in.eth.Type \in OtherEtherTypes
    /\ CallsTo("Next.OnPacketIn") = {1}
    /\ pkt.out.ret = Err("next")

(***************************************************************************)
(* C9: a packet-in to the virtual MAC whose Ethernet type is not IPv4 is   *)
(* consumed: the Router returns nil, does not pass the event on and sends  *)
(* no flow-mod and no packet-out.                                          *)
(***************************************************************************)
C9_NonIPv4Consumed ==
    (ToRouter /\ pkt.in.eth.Type # EtherTypeIPv4) =>
        /\ pkt.out.ret = Nil
        /\ CallsTo("Next.OnPacketIn") = {}
        /\ SentNothing

\* an ARP frame to the virtual MAC, with a next processor that would fail
C9_Witness ==
    /\ ToRouter
    /\ pkt.in.eth.Type \in OtherEtherTypes
    /\ pkt.in.fault = "Next"
    /\ pkt.out.ret = Nil

(***************************************************************************)
(* C10: for an ICMP echo request to the virtual MAC whose destination IP   *)
(* is a router IP the Router emits exactly one packet-out, on the ingress  *)
(* port, carrying an echo reply with the request's id, sequence and        *)
(* payload, IP source = the request's destination, IP destination = the    *)
(* request's source, Ethernet addresses swapped, and installs no flow.     *)
(* The reply is a function of the request alone, so a replay yields it     *)
(* again.                                                                  *)
(***************************************************************************)
EchoRequestToRouter ==
    /\ ToRouter
    /\ pkt.in.eth.Type = EtherTypeIPv4
    /\ pkt.in.eth.Payload # Garbage
    /\ pkt.in.eth.Payload.Protocol = ProtocolICMP
    /\ pkt.in.eth.Payload.Payload # Garbage
    /\ pkt.in.eth.Payload.Payload.Type = ICMPEchoRequest
    /\ pkt.in.eth.Payload.DstIP \in RouterIPs
    /\ pkt.in.fault # "db.IsRouter"

IPv4ToRouter ==
    /\ ToRouter
    /\ pkt.in.eth.Type = EtherTypeIPv4
    /\ pkt.in.eth.Payload # Garbage
InNetworks(ip) == \E i \in 1..Len(Networks) : Contains(Networks[i], ip)
NotRouterIP ==
    /\ IPv4ToRouter
    /\ pkt.in.eth.Payload.DstIP \notin RouterIPs
    /\ pkt.in.fault \notin {"db.IsRouter", "db.GetNetworks(dst)"}
Incoming == NotRouterIP /\ InNetworks(pkt.in.eth.Payload.DstIP)
Outgoing == NotRouterIP /\ ~InNetworks(pkt.in.eth.Payload.DstIP)
Loop ==
    /\ Outgoing
    /\ pkt.in.fault # "db.IsGateway"
    /\ pkt.in.eth.SrcMAC \in Range(pkt.in.gateways)
Spoofing ==
    /\ Outgoing
    /\ pkt.in.fault \notin {"db.IsGateway", "db.GetNetworks(src)"}
    /\ ~InNetworks(pkt.in.eth.Payload.SrcIP)
PassedChecks ==
    /\ Outgoing
    /\ pkt.in.fault \notin {"db.IsGateway", "db.GetNetworks(src)",
                            "db.GetGateways"}
    /\ pkt.in.eth.SrcMAC \notin Range(pkt.in.gateways)
    /\ InNetworks(pkt.in.eth.Payload.SrcIP)
NotRouted ==
    /\ CallsTo("finder.Node") = {}
    /\ CallsTo("Next.OnPacketIn") = {}
    /\ SentNothing

Located == Handled /\ CallsTo("finder.Node") # {} /\ pkt.in.node # NoNode
NextHop == pkt.out.calls[CHOOSE i \in CallsTo("finder.Node") : TRUE].arg
SameDevice == pkt.in.ingress[1] = pkt.in.node[1]
Routed == Located /\ (SameDevice \/ pkt.in.hasPath)
Egress ==
    IF SameDevice THEN pkt.in.node
    ELSE FinderPath(pkt.in, pkt.in.ingress[1], pkt.in.node[1])[1][1]
FlowFaults == {"NewMatch", "NewAction", "NewInstruction", "NewFlowMod"}
Rewrites(msg, mac) ==
    \E k \in 1..Len(msg.actions) :
        /\ "setDstMAC" \in DOMAIN msg.actions[k]
        /\ msg.actions[k].setDstMAC = mac
OneFlowThenOnePacketOut ==
    /\ Cardinality(CallsTo("SendMessage")) = 1
    /\ Cardinality(CallsTo("PacketOut")) = 1
    /\ \A i \in CallsTo("SendMessage"), j \in CallsTo("PacketOut") :
          /\ i < j
          /\ pkt.out.calls[i].arg.device = pkt.in.ingress[1]
          /\ pkt.out.calls[i].arg.msg.priority = 30
          /\ Rewrites(pkt.out.calls[i].arg.msg, NextHop)
          /\ pkt.out.calls[j].arg.port = Egress
          /\ pkt.out.calls[j].arg.packet.DstMAC = NextHop

(***************************************************************************)
(* C12 as stated: in every routed case exactly one flow-mod goes to the    *)
(* ingress device, at priority 30 and rewriting the destination MAC to the *)
(* next hop, followed by exactly one packet-out on the egress port.        *)
(***************************************************************************)
C12_AsStated == Routed => OneFlowThenOnePacketOut

(***************************************************************************)
(* C12: in every routed case where the flow-mod is built and sent without  *)
(* error, exactly one flow-mod goes to the ingress device, at priority 30  *)
(* and rewriting the destination MAC to the next hop, followed by exactly  *)
(* one packet-out on the egress port.  When the factory fails no flow-mod  *)
(* and no packet-out is sent; when Device.SendMessage fails no packet-out  *)
(* is sent; both return the error.  A packet-out is never emitted without  *)
(* a flow-mod sent successfully before it.                                 *)
(***************************************************************************)
C12_FlowThenPacketOutUnlessFlowFails ==
    Routed =>
        /\ pkt.in.fault \notin FlowFaults \cup {"SendMessage"} =>
              OneFlowThenOnePacketOut
        /\ pkt.in.fault \in FlowFaults =>
              /\ SentNothing
              /\ pkt.out.ret = Err(pkt.in.fault)
        /\ pkt.in.fault = "SendMessage" =>
              /\ Cardinality(CallsTo("SendMessage")) = 1
              /\ CallsTo("PacketOut") = {}
              /\ pkt.out.ret = Err("send")
        /\ \A j \in CallsTo("PacketOut") :
              \E i \in CallsTo("SendMessage") :
                  i < j /\ pkt.out.calls[i].ret = Nil

\* a host on another device with a path to it: flow on device 1, then the
\* frame out of the first hop's port
C12_Witness ==
    /\ Routed
    /\ pkt.in.fault = "none"
    /\ pkt.in.ingress = <<1, 1>>
    /\ pkt.in.node = <<2, 1>>
    /\ OneFlowThenOnePacketOut
    /\ \E j \in CallsTo("PacketOut") : pkt.out.calls[j].arg.port = <<1, 2>>
    /\ pkt.out.ret = Nil

(***************************************************************************)
(* C13 as stated: the flow-mod built from a flowParam has table =          *)
(* device.FlowTableID(), idle_timeout = 30, the caller's priority (30 for  *)
(* the Router) and the action list [set-dst-mac(targetMAC),                *)
(* output(outPort)] when targetMAC differs from dstMAC and [output(outPort)]*)
(* when they are equal.                                                    *)
(***************************************************************************)
C13_FlowModAsStated ==
    Handled =>
        \A i \in CallsTo("SendMessage") :
            LET msg == pkt.out.calls[i].arg.msg
                n == Len(msg.actions) IN
            /\ msg.table = DeviceTable(pkt.out.calls[i].arg.device)
            /\ msg.idleTimeout = 30
            /\ msg.priority = 30
            /\ DOMAIN msg.actions[n] = {"output"}
            /\ msg.actions[n].output = Egress[2]
            /\ IF NextHop # msg.match.dstMAC
               THEN /\ n = 2
                    /\ DOMAIN msg.actions[1] = {"setDstMAC"}
                    /\ msg.actions[1].setDstMAC = NextHop
               ELSE n = 1

(***************************************************************************)
(* C14: a non-router-IP IPv4 packet to the virtual MAC is classified by    *)
(* its destination IP alone.  Inside a configured network it is incoming:  *)
(* FindMAC(dstIP) is asked, its answer is the next hop, no gateway query   *)
(* is made, and with no host found the packet is dropped with no flow-mod  *)
(* and no packet-out.  Otherwise it is outgoing and FindMAC is never       *)
(* asked.                                                                  *)
(***************************************************************************)
C14_ClassifiedByDstIP ==
    /\ Incoming =>
          LET dst == pkt.in.eth.Payload.DstIP IN
          /\ CallsTo("db.GetGateways") = {}
          /\ CallsTo("db.IsGateway") = {}
          /\ CallsTo("db.GetNetworks(src)") = {}
          /\ Cardinality(CallsTo("db.FindMAC")) = 1
          /\ \A i \in CallsTo("db.FindMAC") : pkt.out.calls[i].arg = dst
          /\ (pkt.in.fault # "db.FindMAC" /\ dst \in DOMAIN pkt.in.hosts) =>
                /\ Cardinality(CallsTo("finder.Node")) = 1
                /\ NextHop = pkt.in.hosts[dst]
                /\ \A i \in CallsTo("SendMessage") :
                      Rewrites(pkt.out.calls[i].arg.msg, pkt.in.hosts[dst])
          /\ (pkt.in.fault # "db.FindMAC" /\ dst \notin DOMAIN pkt.in.hosts) =>
                /\ NotRouted
                /\ pkt.out.ret = Nil
    /\ Outgoing => CallsTo("db.FindMAC") = {}

\* an incoming packet from a gateway with an address outside the networks,
\* routed to the host FindMAC named
C14_Witness ==
    /\ Incoming
    /\ pkt.in.eth.SrcMAC = Gateway1
    /\ pkt.in.eth.Payload.SrcIP = SpoofedIP
    /\ pkt.in.gateways = <<Gateway1>>
    /\ HostIP \in DOMAIN pkt.in.hosts
    /\ pkt.in.hosts[HostIP] = HostB
    /\ Routed
    /\ \E i \in CallsTo("SendMessage") :
          Rewrites(pkt.out.calls[i].arg.msg, HostB)

(***************************************************************************)
(* C15: for an outgoing packet that passes the loop and spoofing checks    *)
(* the next hop is a member of the list GetGateways() returned (its only   *)
(* element when there is one) and the installed flow rewrites the          *)
(* destination MAC to it; with an empty list the packet is dropped and     *)
(* pickGateway's panic is never reached.                                   *)
(***************************************************************************)
C15_GatewayFromList ==
    /\ Handled => pkt.out.ret # Panic
    /\ PassedChecks =>
          /\ Cardinality(CallsTo("db.GetGateways")) = 1
          /\ Len(pkt.in.gateways) = 0 =>
                /\ NotRouted
                /\ pkt.out.ret = Nil
          /\ Len(pkt.in.gateways) > 0 =>
                /\ Cardinality(CallsTo("finder.Node")) = 1
                /\ NextHop \in Range(pkt.in.gateways)
                /\ Len(pkt.in.gateways) = 1 => NextHop = pkt.in.gateways[1]
                /\ \A i \in CallsTo("SendMessage") :
                      Rewrites(pkt.out.calls[i].arg.msg, NextHop)

\* the second of two gateways is chosen and the flow rewrites to it
C15_Witness ==
    /\ PassedChecks
    /\ pkt.in.gateways = <<Gateway1, Gateway2>>
    /\ NextHop = Gateway2
    /\ \E i \in CallsTo("SendMessage") :
          /\ Rewrites(pkt.out.calls[i].arg.msg, Gateway2)
          /\ pkt.out.calls[i].ret = Nil

(***************************************************************************)
(* C16: when the next hop is on another device than the ingress port and   *)
(* the path query returns no path, the Router returns nil, sends no        *)
(* flow-mod and no packet-out and does not pass the event on.              *)
(***************************************************************************)
C16_NoPathDropAndWait ==
    (Located /\ ~SameDevice /\ ~pkt.in.hasPath) =>
        /\ pkt.out.ret = Nil
        /\ SentNothing
        /\ CallsTo("Next.OnPacketIn") = {}
        /\ pkt.out.eth = pkt.in.eth

\* the path query was made, answered with no hop, and nothing else followed
C16_Witness ==
    /\ Located
    /\ pkt.in.ingress = <<1, 1>>
    /\ pkt.in.node = <<2, 1>>
    /\ ~pkt.in.hasPath
    /\ pkt.in.fault = "Next"
    /\ \E i \in CallsTo("finder.Path") :
          /\ pkt.out.calls[i].ret = <<>>
          /\ i = Len(pkt.out.calls)
    /\ pkt.out.ret = Nil

(***************************************************************************)
(* C17: the Firewall passes every event through: for OnPacketIn, OnPortUp, *)
(* OnPortDown, OnDeviceUp, OnDeviceDown and OnTopologyChange it makes      *)
(* exactly one call, the same callback of the next processor with the      *)
(* arguments it was given, returns that call's result, and makes no other  *)
(* call (no flow-mod, no packet-out).                                      *)
(***************************************************************************)
C17_FirewallPassesThrough ==
    fw.kind # "none" =>
        /\ Len(fw.out.calls) = 1
        /\ fw.out.calls[1].fn = fw.kind
        /\ fw.out.calls[1].arg = fw.args
        /\ fw.out.ret = fw.out.calls[1].ret

\* a packet-in for the Router's virtual MAC goes on to the next processor,
\* whose error comes back
C17_Witness ==
    /\ fw.kind = "OnPacketIn"
    /\ fw.args[2].DstMAC = VirtualMAC
    /\ fw.out.calls[1].arg[1] = <<2, 1>>
    /\ fw.out.ret = Err("next")

(***************************************************************************)
(* C18 as stated: in every reachable state of any interleaving of Device   *)
(* and Port method calls each task holds at most one of the Device and     *)
(* Port mutexes.                                                           *)
(***************************************************************************)
C18_AtMostOneLock == \A t \in Tasks : Cardinality(held[t]) <= 1

(***************************************************************************)
(* C19 as stated: while a Device.SendMessage call is inside session.Write  *)
(* the Device mutex is free.                                               *)
(***************************************************************************)
C19_DeviceLockFreeDuringWrite ==
    \A t \in Tasks :
        task[t].pc = "inWrite" => \A u \in Tasks : DeviceLock \notin held[u]

(***************************************************************************)
(* C20: NewController and newDevice with a nil logger, newDevice with a    *)
(* nil session, setFactory(nil), addPort and updatePort with a nil port    *)
(* and SendMessage(nil) all panic; no step of such a call changes the      *)
(* factory, the port map, a port or what was written, session.Write is     *)
(* never entered for the nil message, and the call ends holding no mutex.  *)
(***************************************************************************)
PanickingOps ==
    {"NewController", "newDevice", "setFactory", "addPort", "updatePort",
     "SendMessage"}
NilArg(c) ==
    /\ c.op \in PanickingOps
    /\ \E i \in 1..Len(c.arg) : c.arg[i] = "nil"
C20_NilArgumentsPanic ==
    /\ [](/\ "nil" \notin written
          /\ \A t \in Tasks :
                NilArg(task[t]) =>
                    /\ task[t].pc \in {"locked", "unlock", "done"}
                    /\ task[t].pc = "done" =>
                          task[t].result = "panic" /\ held[t] = {})
    /\ [][\A t \in Tasks :
             (task'[t] # task[t] /\ NilArg(task'[t])) =>
                 UNCHANGED DeviceState]_vars

\* setFactory(nil) has panicked on a Device whose factory stays set, and
\* SendMessage(nil) has panicked with nothing written
C20_Witness ==
    \E t \in Tasks, u \in Tasks :
        /\ task[t].op = "setFactory"
        /\ task[t].arg = <<"nil">>
        /\ task[t].pc = "done"
        /\ task[t].result = "panic"
        /\ factory = "of13"
        /\ task[u].op = "SendMessage"
        /\ task[u].arg = <<"nil">>
        /\ task[u].pc = "done"
        /\ task[u].result = "panic"
        /\ written = {}
        /\ held[t] = {} /\ held[u] = {}

(***************************************************************************)
(* C22: Port.RemoveNode(mac) removes every Node with that MAC from the     *)
(* port and nothing else: the port's list afterwards is the list before    *)
(* without the Nodes of that MAC, in the same order; the lists of all      *)
(* other ports are unchanged; and when no Node has that MAC (as after a    *)
(* first RemoveNode of it) the list is left as it was.                     *)
(***************************************************************************)
C22_RemoveNodeFrame ==
    portOp.op = "RemoveNode" =>
        LET p == portOp.port
            Other(m) == m # portOp.mac IN
        /\ nodes[p] = SelectSeq(portOp.before[p], Other)
        /\ \A i \in 1..Len(nodes[p]) : nodes[p][i] # portOp.mac
        /\ \A q \in PortIDs \ {p} : nodes[q] = portOp.before[q]
        /\ (\A i \in 1..Len(portOp.before[p]) :
               portOp.before[p][i] # portOp.mac) =>
              nodes[p] = portOp.before[p]

\* two Nodes of one MAC around a Node of another are both removed, the
\* other Node and the other ports' Nodes stay
C22_Witness ==
    /\ portOp.op = "RemoveNode"
    /\ portOp.port = <<1, 1>>
    /\ portOp.mac = <<0, 10>>
    /\ portOp.before[<<1, 1>>] = << <<0, 10>>, <<0, 160>>, <<0, 10>> >>
    /\ nodes[<<1, 1>>] = << <<0, 160>> >>
    /\ nodes[<<1, 2>>] = << <<0, 10>> >>

(***************************************************************************)
(* C23: in Router.route the egress is the located node's own port when the *)
(* node is on the ingress device, and otherwise the egress port of the     *)
(* first hop of Path(ingress device, node's device); the flow-mod goes to  *)
(* the ingress device and its output port is the port the packet-out is    *)
(* sent on.                                                                *)
(***************************************************************************)
FirstHopEgress ==
    pkt.out.calls[CHOOSE i \in CallsTo("finder.Path") : TRUE].ret[1][1]
C23_EgressSelection ==
    Routed =>
        LET egress == IF SameDevice THEN pkt.in.node ELSE FirstHopEgress IN
        /\ SameDevice => CallsTo("finder.Path") = {}
        /\ ~SameDevice =>
              \A i \in CallsTo("finder.Path") :
                  pkt.out.calls[i].arg = <<pkt.in.ingress[1], pkt.in.node[1]>>
        /\ egress[1] = pkt.in.ingress[1]
        /\ \A i \in CallsTo("SendMessage") :
              LET msg == pkt.out.calls[i].arg.msg IN
              /\ pkt.out.calls[i].arg.device = pkt.in.ingress[1]
              /\ msg.actions[Len(msg.actions)].output = egress[2]
              /\ msg.match.inPort = pkt.in.ingress[2]
        /\ \A j \in CallsTo("PacketOut") : pkt.out.calls[j].arg.port = egress
        /\ pkt.in.fault = "none" =>
              CallsTo("SendMessage") # {} /\ CallsTo("PacketOut") # {}

\* both nodes on device 2: flow on device 2 out of the node's port, and the
\* frame out of that port
C23_Witness ==
    /\ Routed
    /\ pkt.in.ingress = <<2, 1>>
    /\ pkt.in.node = <<2, 1>>
    /\ pkt.in.fault = "none"
    /\ \E i \in CallsTo("SendMessage") :
          /\ pkt.out.calls[i].arg.device = 2
          /\ pkt.out.calls[i].arg.msg.actions[2].output = 1
    /\ \E j \in CallsTo("PacketOut") : pkt.out.calls[j].arg.port = <<2, 1>>

(***************************************************************************)
(* C25: whenever Router.OnPacketIn returns an error that is not the result *)
(* of its packet-out call or of the next processor, no packet-out has been *)
(* emitted and the event has not been passed on; a flow installation that  *)
(* failed is not attempted again in the same invocation.                   *)
(***************************************************************************)
OwnError ==
    /\ Handled
    /\ pkt.out.ret # Nil
    /\ \A i \in CallsTo("PacketOut") \cup CallsTo("Next.OnPacketIn") :
          pkt.out.calls[i].ret # pkt.out.ret
NodeUnknown == Handled /\ CallsTo("finder.Node") # {} /\ pkt.in.node = NoNode
C26_UnknownNodePassedOn ==
    NodeUnknown =>
        /\ SentNothing
        /\ Cardinality(CallsTo("Next.OnPacketIn")) = 1
        /\ \A i \in CallsTo("Next.OnPacketIn") :
              /\ pkt.out.calls[i].arg.port = pkt.in.ingress
              /\ pkt.out.calls[i].arg.eth =
                    [pkt.in.eth EXCEPT !.DstMAC = NextHop]
              /\ pkt.out.ret = pkt.out.calls[i].ret
        /\ pkt.out.eth = [pkt.in.eth EXCEPT !.DstMAC = NextHop]

\* an outgoing packet for a gateway nobody has seen yet goes on with the
\* gateway's MAC, and the next processor's error comes back
C26_Witness ==
    /\ NodeUnknown
    /\ PassedChecks
    /\ NextHop = Gateway1
    /\ pkt.out.eth.DstMAC = Gateway1
    /\ pkt.in.eth.DstMAC = VirtualMAC
    /\ pkt.out.ret = Err("next")

(***************************************************************************)
(* C27: Device.updatePort on a port number that exists keeps the Port      *)
(* object and its node list and replaces only that Port's descriptor; on   *)
(* an unknown number it stores a new Port with an empty node list.         *)
(* Device.addPort on a number that exists stores a new Port object, with   *)
(* an empty node list, in place of the old one.  No step removes a port    *)
(* number from a Device.                                                   *)
(***************************************************************************)
StepOf(t, op) == task[t].op = op /\ task'[t] # task[t] /\ task'[t].op = op
C27_PortIdentity ==
    [][/\ \A n \in PortNums : ports[n] # 0 => ports'[n] # 0
       /\ \A t \in Tasks :
             LET n == task[t].num IN
             /\ (StepOf(t, "updatePort") /\ ports[n] # 0) =>
                   /\ ports' = ports
                   /\ portNodes' = portNodes
                   /\ \A o \in PortObjects \ {ports[n]} : value'[o] = value[o]
             /\ (StepOf(t, "updatePort") /\ ports[n] = 0 /\ ports'[n] # 0) =>
                   /\ portNodes'[ports'[n]] = <<>>
                   /\ value'[ports'[n]] = task[t].arg[1]
                   /\ \A u \in Tasks : PortLock(ports'[n]) \notin held'[u]
             /\ (StepOf(t, "addPort") /\ ports'[n] # ports[n]) =>
                   /\ ports'[n] \notin {ports[m] : m \in PortNums}
                   /\ portNodes'[ports'[n]] = <<>>
                   /\ value'[ports'[n]] = task[t].arg[1]
                   /\ portNodes' = portNodes
             /\ (StepOf(t, "addPort") /\ task[t].pc = "store") =>
                   ports'[n] = task[t].obj /\ ports'[n] # ports[n]]_vars

\* addPort has replaced port 1, on which a Node had been learned: the old
\* object still has the Node, the one the Device now holds has none
C27_Witness ==
    \E t \in Tasks :
        /\ task[t].op = "addPort"
        /\ task[t].num = 1
        /\ task[t].pc = "done"
        /\ ports[1] = 2
        /\ portNodes[1] = <<HostA>>
        /\ portNodes[2] = <<>>

(***************************************************************************)
(* C21 as stated: after any sequence of inserts, updates and deletes on    *)
(* host and vip, an ip row has used = 1 exactly when at least one host or  *)
(* vip row references it.                                                  *)
(***************************************************************************)
C21_UsedIffReferenced ==
    \A ip \in IPIDs :
        ipUsed[ip] = 1 <=>
            \/ \E h \in hostRows : h.ip_id = ip
            \/ \E v \in vipRows : v.ip_id = ip

(***************************************************************************)
(* C24 as stated: every Session created by AddConnection has the topology  *)
(* as finder and watcher and a listener registered through                 *)
(* SetEventListener; under any interleaving of SetEventListener and        *)
(* AddConnection no session is started with a nil or stale listener.       *)
(***************************************************************************)
C24_SessionsHaveListener ==
    \A i \in 1..Len(sessions) :
        /\ sessions[i].finder = "topo"
        /\ sessions[i].watcher = "topo"
        /\ sessions[i].listener \in Listeners

(***************************************************************************)
(* C28: under any interleaving of concurrent valid POSTs with the same     *)
(* DPID the switch table never holds two rows with one DPID and at most    *)
(* one of the requests answers okay; a request whose Switch(dpid) lookup   *)
(* found nothing but whose AddSwitch comes after another's insert is       *)
(* rejected by the unique key and answers queryFailed, not duplicatedDPID. *)
(***************************************************************************)
C28_OneWinner ==
    /\ [](/\ \A r1, r2 \in switches : r1.dpid = r2.dpid => r1 = r2
          /\ \A c, d \in Clients :
                (/\ c # d
                 /\ post[c].pc = "done" /\ post[c].status = okay
                 /\ post[d].pc = "done" /\ post[d].status = okay) =>
                    post[c].sw.DPID # post[d].sw.DPID)
    /\ [][\A c \in Clients :
             (post[c].pc = "insert" /\ post'[c].pc = "done") =>
                 IF dbSwitch(switches, post[c].sw.DPID)
                 THEN post'[c].status = queryFailed /\ switches' = switches
                 ELSE post'[c].status = okay =>
                         /\ dbSwitch(switches', post[c].sw.DPID)
                         /\ \A d \in Clients \ {c} :
                               (post[d].pc = "done" /\ post[d].status = okay)
                                   => post[d].sw.DPID # post[c].sw.DPID]_vars

\* both clients looked up DPID 1 before either inserted: one has okay, the
\* other queryFailed, and the table has one row
C28_Witness ==
    /\ post[1].pc = "done" /\ post[1].status = queryFailed
    /\ post[1].err = DuplicateEntry
    /\ post[2].pc = "done" /\ post[2].status = okay
    /\ post[1].sw.DPID = 1 /\ post[2].sw.DPID = 1
    /\ Cardinality({r \in switches : r.dpid = 1}) = 1
    /\ Cardinality(switches) = 1

(***************************************************************************)
(* C29: a node list returned by Port.Nodes is a consistent snapshot: its   *)
(* length and the elements visible through it are, whatever AddNode and    *)
(* RemoveNode calls follow on the Port, those the Port's list had when     *)
(* Nodes read it under the lock.                                           *)
(***************************************************************************)
C29_SnapshotStable ==
    \A s \in returned :
        /\ Len(s.seen) = s.slice.len
        /\ Elements(arrays, s.slice) = s.seen

\* a slice of three nodes was returned and shares the Port's backing array,
\* into whose spare capacity an AddNode has since appended a fourth node
C29_Witness ==
    \E s \in returned :
        /\ s.slice.array = header.array
        /\ s.slice.len = 3
        /\ header.len = 4
        /\ Elements(arrays, header) # s.seen

=============================================================================
